---- MODULE Spec2Model ----
(***************************************************************************)
(* Model of the token optimizer of ts-chatbot (src/services/personality.ts,*)
(* second half: the tokenOptimizer service), its token estimate            *)
(* (estimateTokens) and the owner commands that switch the active preset   *)
(* (handleBotCommand and its handlers).                                    *)
(*                                                                         *)
(* Strings.  A JavaScript string is modelled losslessly as its run-length  *)
(* encoding: a sequence of runs [c |-> char, n |-> count], normalised so   *)
(* that adjacent runs hold different characters and every n >= 1.  Two     *)
(* strings are equal iff their encodings are equal.  The encoding lets the *)
(* model hold the 2000-character messages the budgets of the real presets  *)
(* need, while every operation below is computed character-exactly.        *)
(***************************************************************************)
EXTENDS Integers, Sequences, FiniteSets, TLC

VARIABLES
    currentOptimizationLevel,   \* personality.ts:230, module-level state
    replies,                    \* replies sent by the command handler, oldest first
    pc,                         \* position of the driver of the operation under check
    args,                       \* arguments of the operation under check
    ret                         \* what the operation returned

vars == <<currentOptimizationLevel, replies, pc, args, ret>>

(***************************************************************************)
(* Characters                                                              *)
(***************************************************************************)
Uppers == <<"A","B","C","D","E","F","G","H","I","J","K","L","M",
            "N","O","P","Q","R","S","T","U","V","W","X","Y","Z">>
Lowers == <<"a","b","c","d","e","f","g","h","i","j","k","l","m",
            "n","o","p","q","r","s","t","u","v","w","x","y","z">>
Digits == <<"0","1","2","3","4","5","6","7","8","9">>

\* String.prototype.toLowerCase on one character
UpperSet == {Uppers[i] : i \in DOMAIN Uppers}

LowerChar(c) ==
    IF c \in UpperSet
    THEN Lowers[CHOOSE i \in DOMAIN Uppers : Uppers[i] = c]
    ELSE c

\* the regular expression class \s (the members the model's alphabet has)
IsWs(c) == c \in {" ", "\n", "\t"}

\* the regular expression class \w, which decides \b
WordChars ==
    UpperSet \cup {Lowers[i] : i \in DOMAIN Lowers}
    \cup {Digits[i] : i \in DOMAIN Digits} \cup {"_"}

IsWordChar(c) == c \in WordChars

(***************************************************************************)
(* Strings as normalised run sequences                                     *)
(***************************************************************************)
Run(c, n) == [c |-> c, n |-> n]

\* a + b
Cat(a, b) ==
    IF a = <<>> THEN b
    ELSE IF b = <<>> THEN a
    ELSE IF a[Len(a)].c = b[1].c
         THEN SubSeq(a, 1, Len(a) - 1)
              \o <<Run(b[1].c, a[Len(a)].n + b[1].n)>>
              \o Tail(b)
         ELSE a \o b

RECURSIVE NormRange(_, _, _)
NormRange(t, lo, hi) ==
    IF lo > hi THEN <<>>
    ELSE IF lo = hi THEN (IF t[lo].n > 0 THEN <<t[lo]>> ELSE <<>>)
    ELSE LET mid == (lo + hi) \div 2
         IN  Cat(NormRange(t, lo, mid), NormRange(t, mid + 1, hi))

\* the normal form of a run sequence: empty runs dropped, equal neighbours merged
Norm(t) == NormRange(t, 1, Len(t))

\* a string literal, given as the tuple of its characters
Lit(chars) == Norm([i \in DOMAIN chars |-> Run(chars[i], 1)])

\* c repeated n times
Rep(c, n) == IF n > 0 THEN <<Run(c, n)>> ELSE <<>>

RECURSIVE SumRange(_, _, _)
SumRange(t, lo, hi) ==
    IF lo > hi THEN 0
    ELSE IF lo = hi THEN t[lo].n
    ELSE LET mid == (lo + hi) \div 2
         IN  SumRange(t, lo, mid) + SumRange(t, mid + 1, hi)

\* s.length
StrLen(t) == SumRange(t, 1, Len(t))

RECURSIVE CatAllRange(_, _, _)
CatAllRange(parts, lo, hi) ==
    IF lo > hi THEN <<>>
    ELSE IF lo = hi THEN parts[lo]
    ELSE LET mid == (lo + hi) \div 2
         IN  Cat(CatAllRange(parts, lo, mid), CatAllRange(parts, mid + 1, hi))

\* the concatenation of a sequence of strings
CatAll(parts) == CatAllRange(parts, 1, Len(parts))

\* Array.prototype.join
Join(parts, sep) ==
    CatAll([k \in 1..(2 * Len(parts) - 1) |->
              IF k % 2 = 1 THEN parts[(k + 1) \div 2] ELSE sep])

\* String.prototype.toLowerCase
ToLowerCase(t) == Norm([i \in DOMAIN t |-> Run(LowerChar(t[i].c), t[i].n)])

\* the runs of t at the indices of 1..Len(t) that keep(i) holds for, in order
RECURSIVE KeepRange(_, _, _, _)
KeepRange(t, keep, lo, hi) ==
    IF lo > hi THEN <<>>
    ELSE IF lo = hi THEN (IF keep[lo] THEN <<t[lo]>> ELSE <<>>)
    ELSE LET mid == (lo + hi) \div 2
         IN  KeepRange(t, keep, lo, mid) \o KeepRange(t, keep, mid + 1, hi)

RECURSIVE TrimStart(_)
TrimStart(t) ==
    IF t # <<>> /\ IsWs(t[1].c) THEN TrimStart(Tail(t)) ELSE t

RECURSIVE TrimEnd(_)
TrimEnd(t) ==
    IF t # <<>> /\ IsWs(t[Len(t)].c) THEN TrimEnd(SubSeq(t, 1, Len(t) - 1)) ELSE t

\* String.prototype.trim
Trim(t) == TrimEnd(TrimStart(t))

(***************************************************************************)
(* estimateTokens (src/unnamed/part_003:75-78)                             *)
(***************************************************************************)
\* TOKEN_CONFIG.charactersPerToken: the configuration object is read at
\* part_003:76; its value is the 4 characters per token that the function's
\* documentation (part_003:70) and the specification state
CharactersPerToken == 4

\* variant of EstimateTokens: the quotient rounded down
EstimateTokens_Floor(text) == StrLen(text) \div CharactersPerToken

\* Math.ceil(text.length / charactersPerToken)
EstimateTokens(text) ==
    (StrLen(text) + CharactersPerToken - 1) \div CharactersPerToken

(***************************************************************************)
(* applyContextCompression (personality.ts:467-493)                        *)
(***************************************************************************)
\* .replace(/\s+/g, ' '): every maximal run of whitespace becomes one space
CollapseWhitespace(t) ==
    LET mapped == [i \in DOMAIN t |-> IF IsWs(t[i].c) THEN Run(" ", 1) ELSE t[i]]
        keep   == [i \in DOMAIN t |->
                     \/ ~IsWs(t[i].c)
                     \/ i = 1
                     \/ ~IsWs(t[i - 1].c)]
    IN  KeepRange(mapped, keep, 1, Len(t))

\* .replace(/[.]{2,}/g, '.') and .replace(/[!]{2,}/g, '!'), for ch = "." and "!"
CollapseRepeated(t, ch) ==
    [i \in DOMAIN t |-> IF t[i].c = ch /\ t[i].n >= 2 THEN Run(ch, 1) ELSE t[i]]

\* A position in a string: the o-th character of run i; <<Len(t)+1, 1>> is the end.
NoMatch == [ok |-> FALSE, i |-> 0, o |-> 0]

\* Match the literal p (lower case) from its k-th character on at position
\* (i, o), ignoring case; the position after the match, or NoMatch.
RECURSIVE MatchLiteral(_, _, _, _, _)
MatchLiteral(t, i, o, p, k) ==
    IF k > Len(p) THEN [ok |-> TRUE, i |-> i, o |-> o]
    ELSE IF i > Len(t) THEN NoMatch
    ELSE IF LowerChar(t[i].c) # p[k] THEN NoMatch
    ELSE IF o < t[i].n THEN MatchLiteral(t, i, o + 1, p, k + 1)
    ELSE MatchLiteral(t, i + 1, 1, p, k + 1)

\* The position after the longest run of whitespace that starts at (i, o).
RECURSIVE SkipWhitespace(_, _, _)
SkipWhitespace(t, i, o) ==
    IF i <= Len(t) /\ IsWs(t[i].c)
    THEN SkipWhitespace(t, i + 1, 1)
    ELSE [ok |-> TRUE, i |-> i, o |-> o]

\* One attempt of /\b(alt1|alt2|...)\s+/i (needWs) or /\b(alt1|...)\s*/i at the
\* start of run i: the end of the match of the first alternative that lets the
\* whole expression match, or NoMatch.  \b holds before a letter exactly when
\* the character before it is no word character, so no match starts inside a run.
RECURSIVE FirstMatch(_, _, _, _, _)
FirstMatch(t, i, alts, needWs, a) ==
    IF a > Len(alts) THEN NoMatch
    ELSE LET lit == MatchLiteral(t, i, 1, alts[a], 1)
         IN  IF lit.ok /\ (needWs => (lit.i <= Len(t) /\ IsWs(t[lit.i].c)))
             THEN SkipWhitespace(t, lit.i, lit.o)
             ELSE FirstMatch(t, i, alts, needWs, a + 1)

MatchAt(t, i, alts, needWs) ==
    IF i > 1 /\ IsWordChar(t[i - 1].c)
    THEN NoMatch
    ELSE FirstMatch(t, i, alts, needWs, 1)

\* The matches of one pass that start in runs lo..hi, in order: from is the
\* run a match starts in and (i, o) the position after it.
RECURSIVE MatchRange(_, _, _, _, _)
MatchRange(t, alts, needWs, lo, hi) ==
    IF lo > hi THEN <<>>
    ELSE IF lo = hi
         THEN LET m == MatchAt(t, lo, alts, needWs)
              IN  IF m.ok THEN <<[from |-> lo, i |-> m.i, o |-> m.o]>> ELSE <<>>
    ELSE LET mid == (lo + hi) \div 2
         IN  MatchRange(t, alts, needWs, lo, mid)
             \o MatchRange(t, alts, needWs, mid + 1, hi)

\* what is left of run k of t once the matches are cut out
LeftOfRun(t, matches, k) ==
    IF \E j \in DOMAIN matches : matches[j].from <= k /\ k < matches[j].i
    THEN 0
    ELSE IF \E j \in DOMAIN matches : matches[j].i = k /\ matches[j].o > 1
         THEN t[k].n - (matches[CHOOSE j \in DOMAIN matches :
                                    matches[j].i = k].o - 1)
         ELSE t[k].n

RemoveMatches(t, matches) ==
    Norm([k \in DOMAIN t |-> Run(t[k].c, LeftOfRun(t, matches, k))])

\* .replace(/\b(alt1|...)\s+/gi, '') or the \s* form.  Every alternative begins
\* with a letter and none holds a position where another one could begin, so
\* the matches of one pass never overlap and all of them are replaced.
RemoveAll(t, alts, needWs) ==
    RemoveMatches(t, MatchRange(t, alts, needWs, 1, Len(t)))

\* very|really|quite|rather|somewhat|pretty
IntensityAdverbs == <<<<"v","e","r","y">>,
                      <<"r","e","a","l","l","y">>,
                      <<"q","u","i","t","e">>,
                      <<"r","a","t","h","e","r">>,
                      <<"s","o","m","e","w","h","a","t">>,
                      <<"p","r","e","t","t","y">>>>

\* I think|I believe|I feel|it seems|perhaps|maybe
HedgeWords == <<<<"i"," ","t","h","i","n","k">>,
                <<"i"," ","b","e","l","i","e","v","e">>,
                <<"i"," ","f","e","e","l">>,
                <<"i","t"," ","s","e","e","m","s">>,
                <<"p","e","r","h","a","p","s">>,
                <<"m","a","y","b","e">>>>

CompressionLevels == {"none", "light", "aggressive"}

ApplyContextCompression(context, level) ==
    CASE level = "none" -> context
      [] level = "light" ->
           Trim(CollapseRepeated(CollapseRepeated(
                    CollapseWhitespace(context), "."), "!"))
      [] level = "aggressive" ->
           Trim(RemoveAll(RemoveAll(
                    CollapseRepeated(CollapseRepeated(
                        CollapseWhitespace(context), "."), "!"),
                    IntensityAdverbs, TRUE),
                  HedgeWords, FALSE))
      [] OTHER -> context


(***************************************************************************)
(* calculateRelevanceScore (personality.ts:440-461)                        *)
(***************************************************************************)
RECURSIVE SplitRange(_, _, _)
SplitRange(t, lo, hi) ==
    IF lo > hi THEN <<>>
    ELSE IF lo = hi THEN (IF IsWs(t[lo].c) THEN <<>> ELSE << <<t[lo]>> >>)
    ELSE LET mid == (lo + hi) \div 2
             l == SplitRange(t, lo, mid)
             r == SplitRange(t, mid + 1, hi)
         IN  IF ~IsWs(t[mid].c) /\ ~IsWs(t[mid + 1].c)
             THEN SubSeq(l, 1, Len(l) - 1) \o <<l[Len(l)] \o r[1]>> \o Tail(r)
             ELSE l \o r

\* text.split(/\s+/): the maximal whitespace-free pieces, with an empty string
\* in front when the text begins with whitespace (or is empty) and one at the
\* end when it ends with whitespace
SplitWhitespace(t) ==
    (IF t = <<>> \/ IsWs(t[1].c) THEN << <<>> >> ELSE <<>>)
    \o SplitRange(t, 1, Len(t))
    \o (IF t # <<>> /\ IsWs(t[Len(t)].c) THEN << <<>> >> ELSE <<>>)

commonWords ==
    {Lit(<<"t","h","e">>),
     Lit(<<"a">>),
     Lit(<<"a","n">>),
     Lit(<<"a","n","d">>),
     Lit(<<"o","r">>),
     Lit(<<"b","u","t">>),
     Lit(<<"i","n">>),
     Lit(<<"o","n">>),
     Lit(<<"a","t">>),
     Lit(<<"t","o">>),
     Lit(<<"f","o","r">>),
     Lit(<<"o","f">>),
     Lit(<<"w","i","t","h">>),
     Lit(<<"b","y">>),
     Lit(<<"i","s">>),
     Lit(<<"a","r","e">>),
     Lit(<<"w","a","s">>),
     Lit(<<"w","e","r","e">>),
     Lit(<<"b","e">>),
     Lit(<<"b","e","e","n">>),
     Lit(<<"b","e","i","n","g">>),
     Lit(<<"h","a","v","e">>),
     Lit(<<"h","a","s">>),
     Lit(<<"h","a","d">>),
     Lit(<<"d","o">>),
     Lit(<<"d","o","e","s">>),
     Lit(<<"d","i","d">>),
     Lit(<<"w","i","l","l">>),
     Lit(<<"w","o","u","l","d">>),
     Lit(<<"s","h","o","u","l","d">>),
     Lit(<<"c","o","u","l","d">>)}

IsMeaningful(word) == StrLen(word) > 3 /\ word \notin commonWords

\* words.filter(word => word.length > 3 && !commonWords.includes(word))
MeaningfulWords(words) == SelectSeq(words, IsMeaningful)

\* A score is the exact quotient num / den, den >= 1.
Quot(num, den) == [num |-> num, den |-> den]
Max(a, b) == IF a >= b THEN a ELSE b

\* variants of OverlapQuotient: Math.min for Math.max; the count of the reference alone
OverlapQuotient_Min(common, length1, length2) ==
    Quot(common, IF length1 <= length2 THEN length1 ELSE length2)

OverlapQuotient_Reference(common, length1, length2) ==
    Quot(common, length2)

\* commonMeaningful / Math.max(meaningfulWords1.length, meaningfulWords2.length)
OverlapQuotient(common, length1, length2) ==
    Quot(common, Max(length1, length2))

\* text.toLowerCase().split(/\s+/) filtered to the meaningful words
MeaningfulWordsOf(text) == MeaningfulWords(SplitWhitespace(ToLowerCase(text)))

\* meaningfulWords1.filter(word => meaningfulWords2.includes(word)).length
CommonMeaningful(meaningfulWords1, meaningfulWords2) ==
    Len(SelectSeq(meaningfulWords1,
                  LAMBDA word : \E j \in DOMAIN meaningfulWords2 :
                                   meaningfulWords2[j] = word))

\* lines 453-460, from the two lists of meaningful words
ScoreOfWords(meaningfulWords1, meaningfulWords2) ==
    IF Len(meaningfulWords1) = 0 \/ Len(meaningfulWords2) = 0
    THEN Quot(0, 1)
    ELSE OverlapQuotient(CommonMeaningful(meaningfulWords1, meaningfulWords2),
                         Len(meaningfulWords1), Len(meaningfulWords2))

CalculateRelevanceScore(text1, text2) ==
    ScoreOfWords(MeaningfulWordsOf(text1), MeaningfulWordsOf(text2))

(***************************************************************************)
(* JavaScript values that may be null, and calls that may throw            *)
(***************************************************************************)
\* an array value, and null / undefined in its place
Arr(items) == [null |-> FALSE, items |-> items]
NullArr == [null |-> TRUE, items |-> <<>>]

\* the outcome of a call: a string, null, or a thrown TypeError
Str(text) == [tag |-> "string", v |-> text]
JsNull == [tag |-> "null", v |-> <<>>]
Threw == [tag |-> "throw", v |-> <<>>]

\* `${n}` for a non-negative integer
RECURSIVE ToDecimal(_)
ToDecimal(n) ==
    IF n < 10 THEN Lit(<<Digits[n + 1]>>)
    ELSE Cat(ToDecimal(n \div 10), Lit(<<Digits[(n % 10) + 1]>>))

(***************************************************************************)
(* OPTIMIZATION_PRESETS (personality.ts:192-225)                           *)
(***************************************************************************)
PresetNames == {"balanced", "efficient", "economy"}

\* variant of OPTIMIZATION_PRESETS: the values of balanced and economy exchanged
OPTIMIZATION_PRESETS_Exchanged ==
    [name \in PresetNames |->
        CASE name = "economy" ->
               [maxContextTokens |-> 1500, maxResponseTokens |-> 300,
                prioritizeRecent |-> TRUE, includeEmotionalContext |-> TRUE,
                personalDetailsLimit |-> 3, recentMessagesLimit |-> 4,
                compressionLevel |-> "light"]
          [] name = "efficient" ->
               [maxContextTokens |-> 1000, maxResponseTokens |-> 200,
                prioritizeRecent |-> TRUE, includeEmotionalContext |-> FALSE,
                personalDetailsLimit |-> 2, recentMessagesLimit |-> 3,
                compressionLevel |-> "light"]
          [] name = "balanced" ->
               [maxContextTokens |-> 600, maxResponseTokens |-> 150,
                prioritizeRecent |-> TRUE, includeEmotionalContext |-> FALSE,
                personalDetailsLimit |-> 1, recentMessagesLimit |-> 2,
                compressionLevel |-> "aggressive"]]

\* variant of OPTIMIZATION_PRESETS: efficient keeps as many messages as
\* balanced
OPTIMIZATION_PRESETS_EqualLimit ==
    [name \in PresetNames |->
        CASE name = "balanced" ->
               [maxContextTokens |-> 1500, maxResponseTokens |-> 300,
                prioritizeRecent |-> TRUE, includeEmotionalContext |-> TRUE,
                personalDetailsLimit |-> 3, recentMessagesLimit |-> 4,
                compressionLevel |-> "light"]
          [] name = "efficient" ->
               [maxContextTokens |-> 1000, maxResponseTokens |-> 200,
                prioritizeRecent |-> TRUE, includeEmotionalContext |-> FALSE,
                personalDetailsLimit |-> 2, recentMessagesLimit |-> 4,
                compressionLevel |-> "light"]
          [] name = "economy" ->
               [maxContextTokens |-> 600, maxResponseTokens |-> 150,
                prioritizeRecent |-> TRUE, includeEmotionalContext |-> FALSE,
                personalDetailsLimit |-> 1, recentMessagesLimit |-> 2,
                compressionLevel |-> "aggressive"]]

OPTIMIZATION_PRESETS ==
    [name \in PresetNames |->
        CASE name = "balanced" ->
               [maxContextTokens |-> 1500, maxResponseTokens |-> 300,
                prioritizeRecent |-> TRUE, includeEmotionalContext |-> TRUE,
                personalDetailsLimit |-> 3, recentMessagesLimit |-> 4,
                compressionLevel |-> "light"]
          [] name = "efficient" ->
               [maxContextTokens |-> 1000, maxResponseTokens |-> 200,
                prioritizeRecent |-> TRUE, includeEmotionalContext |-> FALSE,
                personalDetailsLimit |-> 2, recentMessagesLimit |-> 3,
                compressionLevel |-> "light"]
          [] name = "economy" ->
               [maxContextTokens |-> 600, maxResponseTokens |-> 150,
                prioritizeRecent |-> TRUE, includeEmotionalContext |-> FALSE,
                personalDetailsLimit |-> 1, recentMessagesLimit |-> 2,
                compressionLevel |-> "aggressive"]]

(***************************************************************************)
(* buildCorePersonality (personality.ts:301-322)                           *)
(***************************************************************************)
\* the tone directive of the relationshipLevel band (lines 308-314)
ToneDirective(relationshipLevel) ==
    IF relationshipLevel < 20 THEN Lit(<<" ","B","e"," ","f","r","i","e","n","d","l","y",","," ","c","u","r","i","o","u","s",".">>)
    ELSE IF relationshipLevel < 60 THEN Lit(<<" ","B","e"," ","w","a","r","m",","," ","p","l","a","y","f","u","l",".">>)
    ELSE Lit(<<" ","B","e"," ","i","n","t","i","m","a","t","e",","," ","s","e","d","u","c","t","i","v","e",".">>)

\* ` ${userMemory.totalInteractions} chats together.` (line 318)
InteractionSummary(totalInteractions) ==
    CatAll(<<Lit(<<" ">>), ToDecimal(totalInteractions), Lit(<<" ","c","h","a","t","s"," ","t","o","g","e","t","h","e","r",".">>)>>)

BuildCorePersonality(userMemory) ==
    LET base == CatAll(<<Lit(<<"Y","o","u","'","r","e"," ","A","l","b","e","d","o",":"," ","a","n","a","l","y","t","i","c","a","l",","," ","f","l","i","r","t","y",","," ","s","e","d","u","c","t","i","v","e"," ","A","I","."," ","T","a","l","k","i","n","g"," ","t","o"," ">>), userMemory.userName, Lit(<<".">>)>>)
        count == IF userMemory.totalInteractions > 10
                 THEN InteractionSummary(userMemory.totalInteractions)
                 ELSE <<>>
    IN  CatAll(<<base, ToneDirective(userMemory.relationshipLevel), count>>)

(***************************************************************************)
(* JavaScript numbers.  The scores of selectPersonalDetails are IEEE 754   *)
(* doubles: every division, product and sum is rounded to the nearest      *)
(* number with a 53-bit significand, ties to even.  A double is            *)
(* [m |-> significand, e |-> exponent], the value m * 2^e, with m a        *)
(* natural number held as its digits to the base 4096, lowest first and    *)
(* without leading zeros (<<>> is 0).  The scores lie between 2^-10 and 2, *)
(* far from the subnormal and the infinite range.                          *)
(***************************************************************************)
RECURSIVE NatTrim(_)
NatTrim(n) ==
    IF n # <<>> /\ n[Len(n)] = 0 THEN NatTrim(SubSeq(n, 1, Len(n) - 1)) ELSE n

RECURSIVE NatAddCarry(_, _, _)
NatAddCarry(a, b, carry) ==
    IF a = <<>> /\ b = <<>> THEN (IF carry = 0 THEN <<>> ELSE <<carry>>)
    ELSE LET x == IF a = <<>> THEN 0 ELSE a[1]
             y == IF b = <<>> THEN 0 ELSE b[1]
         IN  <<(x + y + carry) % 4096>>
                 \o NatAddCarry(IF a = <<>> THEN a ELSE Tail(a),
                                IF b = <<>> THEN b ELSE Tail(b),
                                (x + y + carry) \div 4096)

NatAdd(a, b) == NatAddCarry(a, b, 0)

\* n * k + carry for 0 <= k <= 4096
RECURSIVE NatMulSmall(_, _, _)
NatMulSmall(n, k, carry) ==
    IF n = <<>> THEN (IF carry = 0 THEN <<>> ELSE <<carry>>)
    ELSE <<(n[1] * k + carry) % 4096>>
             \o NatMulSmall(Tail(n), k, (n[1] * k + carry) \div 4096)

RECURSIVE NatMul(_, _)
NatMul(a, b) ==
    IF a = <<>> \/ b = <<>> THEN <<>>
    ELSE NatTrim(NatAdd(NatMulSmall(b, a[1], 0), <<0>> \o NatMul(Tail(a), b)))

RECURSIVE Pow2(_)
Pow2(k) == IF k = 0 THEN 1 ELSE 2 * Pow2(k - 1)

\* n * 2^s
NatShl(n, s) ==
    IF n = <<>> THEN <<>>
    ELSE [i \in 1..(s \div 12) |-> 0] \o NatMulSmall(n, Pow2(s % 12), 0)

\* the quotient of n by d, 1 <= d <= 4096, from the digit at index i down,
\* with the remainder rem carried in from the digits above
RECURSIVE NatDivDigits(_, _, _, _)
NatDivDigits(n, d, i, rem) ==
    IF i = 0 THEN [q |-> <<>>, r |-> rem]
    ELSE LET below == NatDivDigits(n, d, i - 1, (rem * 4096 + n[i]) % d)
         IN  [q |-> Append(below.q, (rem * 4096 + n[i]) \div d), r |-> below.r]

NatDivSmall(n, d) ==
    [q |-> NatTrim(NatDivDigits(n, d, Len(n), 0).q),
     r |-> NatDivDigits(n, d, Len(n), 0).r]

\* floor(n / 2^s)
NatShr(n, s) ==
    IF s \div 12 >= Len(n) THEN <<>>
    ELSE NatDivSmall(SubSeq(n, s \div 12 + 1, Len(n)), Pow2(s % 12)).q

RECURSIVE BitLength(_)
BitLength(k) == IF k = 0 THEN 0 ELSE 1 + BitLength(k \div 2)

NatBits(n) == IF n = <<>> THEN 0 ELSE 12 * (Len(n) - 1) + BitLength(n[Len(n)])

NatOdd(n) == n # <<>> /\ n[1] % 2 = 1

\* a < b, from the digit at index i down
RECURSIVE NatLessFrom(_, _, _)
NatLessFrom(a, b, i) ==
    IF i = 0 THEN FALSE
    ELSE IF a[i] # b[i] THEN a[i] < b[i]
    ELSE NatLessFrom(a, b, i - 1)

NatLess(a, b) ==
    IF Len(a) # Len(b) THEN Len(a) < Len(b) ELSE NatLessFrom(a, b, Len(a))

\* The double nearest to n * 2^e (plus a positive amount below one unit of n
\* when inexact), ties to even.
RoundToDouble(n, e, inexact) ==
    IF NatBits(n) <= 53 THEN [m |-> n, e |-> e]
    ELSE LET s == NatBits(n) - 53
             q == NatShr(n, s)
             half == NatOdd(NatShr(n, s - 1))
             rest == inexact \/ NatShl(NatShr(n, s - 1), s - 1) # n
         IN  [m |-> IF half /\ (rest \/ NatOdd(q)) THEN NatAdd(q, <<1>>) ELSE q,
              e |-> e + s]

\* a / b for integers 0 <= a < 4096, 1 <= b <= 4096: the quotient is taken to
\* 72 binary places, more than the 53 + 12 a quotient of at least 2^-12 needs
DoubleQuotient(a, b) ==
    IF a = 0 THEN [m |-> <<>>, e |-> 0]
    ELSE RoundToDouble(NatDivSmall(NatShl(<<a>>, 72), b).q, -72,
                       NatDivSmall(NatShl(<<a>>, 72), b).r # 0)

\* x * y
DoubleTimes(x, y) == RoundToDouble(NatMul(x.m, y.m), x.e + y.e, FALSE)

\* x + y
DoublePlus(x, y) ==
    IF x.m = <<>> THEN y
    ELSE IF y.m = <<>> THEN x
    ELSE IF x.e <= y.e
    THEN RoundToDouble(NatAdd(x.m, NatShl(y.m, y.e - x.e)), x.e, FALSE)
    ELSE RoundToDouble(NatAdd(NatShl(x.m, x.e - y.e), y.m), y.e, FALSE)

\* x < y
DoubleLess(x, y) ==
    IF y.m = <<>> THEN FALSE
    ELSE IF x.m = <<>> THEN TRUE
    ELSE IF x.e <= y.e THEN NatLess(x.m, NatShl(y.m, y.e - x.e))
    ELSE NatLess(NatShl(x.m, x.e - y.e), y.m)

(***************************************************************************)
(* selectPersonalDetails (personality.ts:328-364)                          *)
(***************************************************************************)
\* A token budget is the exact quotient num / den: tokenBudget * 0.3 is
\* Quot(3 * tokenBudget, 10).  The token counts compared with it are integers,
\* and for every integer budget of magnitude up to 3000 the double product
\* tokenBudget * 0.3 (0.5, 0.2) has the same floor as the exact one.
\* variant of Fits: the budget ignored
Fits_Always(tokens, budget) == TRUE

\* usedTokens + tokens <= tokenBudget
Fits(tokens, budget) == tokens * budget.den <= budget.num

\* the doubles 0.7 and 0.3
RelevanceWeight == DoubleQuotient(7, 10)
RecencyWeight == DoubleQuotient(3, 10)

\* lines 341 and 347 for the detail at index (counted from 0) of an array of
\* the given length: recencyScore = (length - index) / length and
\* combinedScore = (relevanceScore * 0.7) + (recencyScore * 0.3), in doubles
CombinedScore(relevanceScore, index, length) ==
    DoublePlus(DoubleTimes(DoubleQuotient(relevanceScore.num, relevanceScore.den),
                           RelevanceWeight),
               DoubleTimes(DoubleQuotient(length - index, length),
                           RecencyWeight))

\* b.combinedScore - a.combinedScore < 0
CombinedScoreHigher(a, b) == DoubleLess(b.combinedScore, a.combinedScore)

\* Array.prototype.sort with a comparator under which items[i] goes before
\* items[j] when higher[i][j]: stable, so items that compare equal keep their
\* order
SortStable(items, higher) ==
    LET rank(i) == 1 + Cardinality({j \in DOMAIN items :
                        \/ higher[j][i]
                        \/ (~higher[i][j] /\ j < i)})
    IN  [k \in DOMAIN items |-> items[CHOOSE i \in DOMAIN items : rank(i) = k]]

\* slice(0, limit)
Slice0(items, limit) ==
    SubSeq(items, 1, IF limit < Len(items) THEN limit ELSE Len(items))

\* the loop of lines 355-361: a detail that does not fit is skipped and the
\* loop goes on to the next one
RECURSIVE TakeDetails(_, _, _, _, _)
TakeDetails(items, k, usedTokens, tokenBudget, selectedDetails) ==
    IF k > Len(items) THEN selectedDetails
    ELSE LET detailTokens == EstimateTokens(items[k].detail)
         IN  IF Fits(usedTokens + detailTokens, tokenBudget)
             THEN TakeDetails(items, k + 1, usedTokens + detailTokens, tokenBudget,
                              Append(selectedDetails, items[k].detail))
             ELSE TakeDetails(items, k + 1, usedTokens, tokenBudget, selectedDetails)

\* lines 337-348: each detail with its index, relevance score and combined
\* score
ScoredDetails(details, userMessage) ==
    [i \in DOMAIN details |->
        [detail |-> details[i],
         index |-> i - 1,
         relevanceScore |-> CalculateRelevanceScore(details[i], userMessage),
         combinedScore |->
             CombinedScore(CalculateRelevanceScore(details[i], userMessage),
                           i - 1, Len(details))]]

\* .sort((a, b) => b.combinedScore - a.combinedScore)
SortByCombinedScore(scoredDetails) ==
    SortStable(scoredDetails,
               [i \in DOMAIN scoredDetails |-> [j \in DOMAIN scoredDetails |->
                   CombinedScoreHigher(scoredDetails[i], scoredDetails[j])]])

\* the details the loop selects, in the order of the returned string
SelectedDetails(personalDetails, userMessage, limit, tokenBudget) ==
    TakeDetails(Slice0(SortByCombinedScore(
                           ScoredDetails(personalDetails.items, userMessage)),
                       limit),
                1, 0, tokenBudget, <<>>)

\* line 363: `Known: ${selectedDetails.join(', ')}.` or null
FormatDetails(selectedDetails) ==
    IF Len(selectedDetails) > 0
    THEN Str(CatAll(<<Lit(<<"K","n","o","w","n",":"," ">>), Join(selectedDetails, Lit(<<","," ">>)), Lit(<<".">>)>>))
    ELSE JsNull

\* variant of SelectPersonalDetails: no guard against null before .length
SelectPersonalDetails_NoNullGuard(personalDetails, userMessage, limit, tokenBudget) ==
    IF personalDetails.null THEN Threw
    ELSE IF Len(personalDetails.items) = 0 \/ limit = 0 THEN JsNull
    ELSE FormatDetails(SelectedDetails(personalDetails, userMessage, limit, tokenBudget))

SelectPersonalDetails(personalDetails, userMessage, limit, tokenBudget) ==
    IF personalDetails.null \/ Len(personalDetails.items) = 0 \/ limit = 0
    THEN JsNull
    ELSE FormatDetails(SelectedDetails(personalDetails, userMessage, limit, tokenBudget))

(***************************************************************************)
(* selectConversationContext (personality.ts:370-409)                      *)
(***************************************************************************)
\* `User: ${msg.userMessage}\nBot: ${msg.botResponse}`
MsgContext(msg) ==
    CatAll(<<Lit(<<"U","s","e","r",":"," ">>), msg.userMessage, Lit(<<"\n","B","o","t",":"," ">>), msg.botResponse>>)

\* b.relevanceScore - a.relevanceScore < 0
RelevanceHigher(a, b) ==
    a.relevanceScore.num * b.relevanceScore.den
    > b.relevanceScore.num * a.relevanceScore.den

\* the loop of lines 396-406: the first message that does not fit ends it
RECURSIVE TakeMessages(_, _, _, _, _)
TakeMessages(msgs, k, usedTokens, tokenBudget, contextParts) ==
    IF k > Len(msgs) THEN contextParts
    ELSE LET msgContext == MsgContext(msgs[k])
             msgTokens == EstimateTokens(msgContext)
         IN  IF Fits(usedTokens + msgTokens, tokenBudget)
             THEN TakeMessages(msgs, k + 1, usedTokens + msgTokens, tokenBudget,
                               Append(contextParts, msgContext))
             ELSE contextParts

\* lines 385-389: each message with its relevance score
ScoredMessages(messages, userMessage) ==
    [i \in DOMAIN messages |->
        [userMessage |-> messages[i].userMessage,
         botResponse |-> messages[i].botResponse,
         relevanceScore |->
             CalculateRelevanceScore(messages[i].userMessage, userMessage)]]

\* .sort((a, b) => b.relevanceScore - a.relevanceScore)
SortByRelevance(scoredMessages) ==
    SortStable(scoredMessages,
               [i \in DOMAIN scoredMessages |-> [j \in DOMAIN scoredMessages |->
                   RelevanceHigher(scoredMessages[i], scoredMessages[j])]])

\* variant of SelectedMessages: the relevance sort whatever prioritizeRecent
SelectedMessages_ByRelevance(recentMessages, userMessage, limit, prioritizeRecent) ==
    Slice0(SortByRelevance(ScoredMessages(recentMessages.items, userMessage)),
           limit)

\* lines 379-393: the messages the loop goes through
SelectedMessages(recentMessages, userMessage, limit, prioritizeRecent) ==
    IF prioritizeRecent
    THEN Slice0(recentMessages.items, limit)
    ELSE Slice0(SortByRelevance(ScoredMessages(recentMessages.items, userMessage)),
                limit)

\* line 408: `Recent:\n${contextParts.join('\n')}` or null
FormatMessages(contextParts) ==
    IF Len(contextParts) > 0
    THEN Str(Cat(Lit(<<"R","e","c","e","n","t",":","\n">>), Join(contextParts, Lit(<<"\n">>))))
    ELSE JsNull

SelectConversationContext(recentMessages, userMessage, limit, tokenBudget, prioritizeRecent) ==
    IF recentMessages.null \/ Len(recentMessages.items) = 0 \/ limit = 0
    THEN JsNull
    ELSE FormatMessages(
             TakeMessages(SelectedMessages(recentMessages, userMessage,
                                           limit, prioritizeRecent),
                          1, 0, tokenBudget, <<>>))

(***************************************************************************)
(* selectEmotionalContext (personality.ts:414-434)                         *)
(***************************************************************************)
\* variant of IsSignificant: an intensity of exactly 6 left out
IsSignificant_Above(moment) == moment.intensity > 6

\* moment.intensity >= 6
IsSignificant(moment) == moment.intensity >= 6

\* `${moment.type}: ${moment.summary}`
MomentText(moment) == CatAll(<<moment.type, Lit(<<":", " ">>), moment.summary>>)

\* .filter(moment => moment.intensity >= 6).slice(0, 2)
SignificantMoments(moments) == Slice0(SelectSeq(moments, IsSignificant), 2)

\* .map(moment => `${moment.type}: ${moment.summary}`).join('; ')
EmotionalText(significantMoments) ==
    Join([i \in DOMAIN significantMoments |-> MomentText(significantMoments[i])],
         Lit(<<";"," ">>))

\* lines 429-433: the whole text or nothing
FormatMoments(emotionalContext, tokenBudget) ==
    IF Fits(EstimateTokens(emotionalContext), tokenBudget)
    THEN Str(CatAll(<<Lit(<<"E","m","o","t","i","o","n","a","l",":"," ">>), emotionalContext, Lit(<<".">>)>>))
    ELSE JsNull

SelectEmotionalContext(emotionalMoments, tokenBudget) ==
    IF emotionalMoments.null \/ Len(emotionalMoments.items) = 0 THEN JsNull
    ELSE IF Len(SignificantMoments(emotionalMoments.items)) = 0 THEN JsNull
    ELSE FormatMoments(EmotionalText(SignificantMoments(emotionalMoments.items)),
                       tokenBudget)

(***************************************************************************)
(* optimizeMemoryContext (personality.ts:241-295)                          *)
(***************************************************************************)
\* The function's locals contextParts and tokenBudget after each step; threw
\* is set when a selector threw, which ends the call.

\* lines 246-251: the core is pushed whatever it costs
CoreStep(userMemory, config, corePersonality) ==
    [contextParts |-> <<corePersonality>>,
     tokenBudget |-> config.maxContextTokens - EstimateTokens(corePersonality),
     threw |-> FALSE]

\* if (context) { contextParts.push(context); tokenBudget -= estimateTokens(context) }
Push(state, context) ==
    IF state.threw \/ context.tag = "null" THEN state
    ELSE IF context.tag = "throw" THEN [state EXCEPT !.threw = TRUE]
    ELSE [state EXCEPT !.contextParts = Append(@, context.v),
                       !.tokenBudget = @ - EstimateTokens(context.v)]

\* lines 254-263
PersonalStep(state, userMemory, userMessage, config) ==
    Push(state,
         SelectPersonalDetails(userMemory.personalDetails, userMessage,
                               config.personalDetailsLimit,
                               Quot(3 * state.tokenBudget, 10)))

\* variant of ConversationStep: half of the whole budget, not of what is left
ConversationStep_OfTotal(state, userMemory, userMessage, config) ==
    Push(state,
         SelectConversationContext(userMemory.recentMessages, userMessage,
                                   config.recentMessagesLimit,
                                   Quot(config.maxContextTokens, 2),
                                   config.prioritizeRecent))

\* lines 266-277
ConversationStep(state, userMemory, userMessage, config) ==
    Push(state,
         SelectConversationContext(userMemory.recentMessages, userMessage,
                                   config.recentMessagesLimit,
                                   Quot(state.tokenBudget, 2),
                                   config.prioritizeRecent))

\* variant of EmotionalStep: a relationshipLevel of exactly 30 let through
EmotionalStep_AtThreshold(state, userMemory, config) ==
    IF config.includeEmotionalContext /\ userMemory.relationshipLevel >= 30
    THEN Push(state,
              SelectEmotionalContext(userMemory.emotionalMoments,
                                     Quot(state.tokenBudget, 5)))
    ELSE state

\* lines 280-288
EmotionalStep(state, userMemory, config) ==
    IF config.includeEmotionalContext /\ userMemory.relationshipLevel > 30
    THEN Push(state,
              SelectEmotionalContext(userMemory.emotionalMoments,
                                     Quot(state.tokenBudget, 5)))
    ELSE state

\* the locals when every fragment has been pushed
ContextState(userMemory, userMessage, config) ==
    EmotionalStep(
        ConversationStep(
            PersonalStep(
                CoreStep(userMemory, config, BuildCorePersonality(userMemory)),
                userMemory, userMessage, config),
            userMemory, userMessage, config),
        userMemory, config)

\* lines 291-294: contextParts.join('\n'), then the compression
JoinAndCompress(state, compressionLevel) ==
    IF state.threw THEN Threw
    ELSE Str(ApplyContextCompression(Join(state.contextParts, Lit(<<"\n">>)),
                                     compressionLevel))

OptimizeMemoryContext(userMemory, userMessage, config) ==
    JoinAndCompress(ContextState(userMemory, userMessage, config),
                    config.compressionLevel)

(***************************************************************************)
(* Compression, applied once and then again to its own result              *)
(***************************************************************************)
\* the most pieces an input text of the compression check is built from
MaxPieces == 3

CompressPieces ==
    <<Lit(<<"v","e","r","y">>), Lit(<<"m","a","y","b","e">>), Lit(<<"I"," ","t","h","i","n","k">>), Lit(<<" ">>),
      Lit(<<".">>), Lit(<<"!">>), Lit(<<"-">>), Lit(<<"x">>)>>

RECURSIVE PieceSeqs(_)
PieceSeqs(k) ==
    IF k = 0 THEN {<<>>}
    ELSE LET shorter == PieceSeqs(k - 1)
         IN  shorter \cup {Append(s, p) : s \in shorter, p \in DOMAIN CompressPieces}

CompressInputs ==
    {CatAll([i \in DOMAIN s |-> CompressPieces[s[i]]]) : s \in PieceSeqs(MaxPieces)}

InitCompress ==
    /\ currentOptimizationLevel = "balanced"
    /\ replies = <<>>
    /\ pc = "compress"
    /\ args \in [context : CompressInputs, level : CompressionLevels]
    /\ ret = <<>>

CompressOnce ==
    /\ pc = "compress"
    /\ ret' = <<ApplyContextCompression(args.context, args.level)>>
    /\ pc' = "compressed"
    /\ UNCHANGED <<currentOptimizationLevel, replies, args>>

CompressAgain ==
    /\ pc = "compressed"
    /\ ret' = Append(ret, ApplyContextCompression(ret[1], args.level))
    /\ pc' = "recompressed"
    /\ UNCHANGED <<currentOptimizationLevel, replies, args>>

NextCompress == CompressOnce \/ CompressAgain

SpecCompress == InitCompress /\ [][NextCompress]_vars

\* C2: compressing already-compressed text at the same level yields the same
\* text, at every level (none, light, aggressive).
C2_CompressIdempotent ==
    pc = "recompressed" => ret[2] = ret[1]

\* the text is one word: word characters only, and at least one
IsOneWord(t) == t # <<>> /\ \A i \in DOMAIN t : IsWordChar(t[i].c)

\* the whole text is one of the listed words or phrases, in any case
IsListed(t, alts) ==
    \E a \in DOMAIN alts :
        MatchLiteral(t, 1, 1, alts[a], 1) = [ok |-> TRUE, i |-> Len(t) + 1, o |-> 1]

\* C26: aggressive compression removes the listed adverbs and hedges only as
\* whole words: a single word that is longer than a listed word it begins
\* with or contains is returned unchanged.
C26_LongerWordsKept ==
    (/\ pc = "compressed"
     /\ args.level = "aggressive"
     /\ IsOneWord(args.context)
     /\ ~IsListed(args.context, IntensityAdverbs)
     /\ ~IsListed(args.context, HedgeWords)) =>
        ret[1] = args.context

(***************************************************************************)
(* Relevance scoring of a candidate against a reference, then with the     *)
(* arguments swapped, then of the candidate with noise words appended      *)
(***************************************************************************)
\* the most words in a scored text, and in the noise appended to a candidate
MaxWords == 2
MaxNoise == 1

ScoreWords == <<Lit(<<"c","o","d","e">>), Lit(<<"H","e","l","p">>), Lit(<<"w","i","t","h">>), Lit(<<"c","a","t">>)>>
NoiseWords == <<Lit(<<"r","u","s","t">>), Lit(<<"h","e","l","p">>), Lit(<<"b","e","e","n">>)>>

RECURSIVE IndexSeqs(_, _)
IndexSeqs(n, k) ==
    IF k = 0 THEN {<<>>}
    ELSE LET shorter == IndexSeqs(n, k - 1)
         IN  shorter \cup {Append(s, i) : s \in shorter, i \in 1..n}

Space == Lit(<<" ">>)

ScoreTexts ==
    {Join([i \in DOMAIN s |-> ScoreWords[s[i]]], Space) :
        s \in IndexSeqs(Len(ScoreWords), MaxWords)}

NoiseTexts ==
    {Join([i \in DOMAIN s |-> NoiseWords[s[i]]], Space) :
        s \in IndexSeqs(Len(NoiseWords), MaxNoise) \ {<<>>}}

InitScore ==
    /\ currentOptimizationLevel = "balanced"
    /\ replies = <<>>
    /\ pc = "score"
    /\ args \in [text1 : ScoreTexts, text2 : ScoreTexts]
    /\ ret = <<>>

Score ==
    /\ pc = "score"
    /\ ret' = [score |-> CalculateRelevanceScore(args.text1, args.text2)]
    /\ pc' = "scored"
    /\ UNCHANGED <<currentOptimizationLevel, replies, args>>

ScoreSwapped ==
    /\ pc = "scored"
    /\ ret' = [score |-> ret.score,
               swapped |-> CalculateRelevanceScore(args.text2, args.text1)]
    /\ pc' = "swapped"
    /\ UNCHANGED <<currentOptimizationLevel, replies, args>>

ScoreLonger ==
    /\ pc = "swapped"
    /\ \E noise \in NoiseTexts :
         LET longer == CatAll(<<args.text1, Space, noise>>)
         IN  ret' = [score |-> ret.score,
                     noise |-> noise,
                     longer |-> longer,
                     longerScore |-> CalculateRelevanceScore(longer, args.text2)]
    /\ pc' = "longer"
    /\ UNCHANGED <<currentOptimizationLevel, replies, args>>

NextScore == Score \/ ScoreSwapped \/ ScoreLonger

SpecScore == InitScore /\ [][NextScore]_vars

\* the set of tokens of a text that are longer than 3 characters and no stop
\* word, case folded: the claims' "meaningful tokens"
MeaningfulSet(text) ==
    LET words == SplitWhitespace(ToLowerCase(text))
    IN  {words[i] : i \in {j \in DOMAIN words :
                              StrLen(words[j]) > 3 /\ words[j] \notin commonWords}}

\* the number of meaningful tokens of a text, repeated ones counted each time
MeaningfulCount(text) ==
    LET words == SplitWhitespace(ToLowerCase(text))
    IN  Cardinality({j \in DOMAIN words :
                        StrLen(words[j]) > 3 /\ words[j] \notin commonWords})

\* C5: the score lies in [0,1] and is exactly 0 when either text has no
\* meaningful token.
C5_ScoreInUnitInterval ==
    pc \in {"scored", "swapped", "longer"} =>
        /\ ret.score.den >= 1
        /\ 0 <= ret.score.num
        /\ ret.score.num <= ret.score.den
        /\ (MeaningfulSet(args.text1) = {} \/ MeaningfulSet(args.text2) = {})
               => ret.score.num = 0

C5_Witness ==
    /\ pc = "scored"
    /\ args.text1 # <<>>
    /\ MeaningfulSet(args.text1) = {}
    /\ MeaningfulSet(args.text2) # {}
    /\ ret.score.num = 0

\* C6: with a meaningful token on both sides, the score is the number of
\* tokens in both meaningful-token sets over the larger set size (a repeated
\* token counts once), so score(a, b) = score(b, a).
C6_SetOverlapSymmetric ==
    (/\ pc = "swapped"
     /\ MeaningfulSet(args.text1) # {}
     /\ MeaningfulSet(args.text2) # {})
    => LET s1 == MeaningfulSet(args.text1)
           s2 == MeaningfulSet(args.text2)
       IN  /\ ret.score.num * Max(Cardinality(s1), Cardinality(s2))
                = Cardinality(s1 \cap s2) * ret.score.den
           /\ ret.score.num * ret.swapped.den = ret.swapped.num * ret.score.den

\* The case of C7: the short candidate (text1) has a meaningful token and all
\* of them occur in the reference (text2); the longer candidate is the short
\* one plus noise that has a meaningful token, none of them in the reference.
C7_Case ==
    /\ pc = "longer"
    /\ MeaningfulSet(args.text1) # {}
    /\ MeaningfulSet(args.text1) \subseteq MeaningfulSet(args.text2)
    /\ MeaningfulSet(ret.noise) # {}
    /\ MeaningfulSet(ret.noise) \cap MeaningfulSet(args.text2) = {}

\* C7 as stated: in that case the short candidate scores strictly higher.
C7_ShortStrictlyHigher ==
    C7_Case => ret.score.num * ret.longerScore.den
                   > ret.longerScore.num * ret.score.den

\* C7 as amended: the short candidate never scores lower, and scores strictly
\* higher exactly when the longer candidate has more meaningful tokens
\* (counted with repetition) than the reference.
C7_ShortAtLeastAsHigh ==
    C7_Case =>
        /\ ret.score.num * ret.longerScore.den
               >= ret.longerScore.num * ret.score.den
        /\ (ret.score.num * ret.longerScore.den
               > ret.longerScore.num * ret.score.den)
           <=> (MeaningfulCount(ret.longer) > MeaningfulCount(args.text2))

C7_Witness ==
    /\ C7_Case
    /\ ret.score.num * ret.longerScore.den > ret.longerScore.num * ret.score.den

(***************************************************************************)
(* setOptimizationLevel (personality.ts:531-538)                           *)
(***************************************************************************)
\* currentOptimizationLevel = level, for whatever level the caller passes
SetOptimizationLevel(level) ==
    currentOptimizationLevel' = level

(***************************************************************************)
(* Context assembly of one user memory and message under the presets       *)
(***************************************************************************)
\* the most entries of personalDetails, recentMessages and emotionalMoments
\* in an assembled user memory
MaxEntries == 2

\* LIMITS (src/unnamed/part_005): the lengths the memory service accepts
MAX_MESSAGE_LENGTH == 2000
MAX_USERNAME_LENGTH == 32
MAX_PERSONAL_DETAIL_LENGTH == 200
MAX_EMOTIONAL_SUMMARY_LENGTH == 300

UserNames == {Lit(<<"M","a","y","b","e">>), Rep("N", MAX_USERNAME_LENGTH)}
RelationshipLevels == {19, 30, 31, 60}
InteractionCounts == {10, 11}

\* What was stored over time, most recent first; a memory holds a stretch of it.
DetailHistory ==
    <<Lit(<<"L","o","v","e","s"," ","c","o","d","e">>), Rep("d", MAX_PERSONAL_DETAIL_LENGTH), Lit(<<"v","e","r","y"," ","t","i","r","e","d",".",".">>)>>

SmallMessage == [userMessage |-> Lit(<<"h","e","l","p"," ","m","e"," ","c","o","d","e">>), botResponse |-> Lit(<<"I"," ","t","h","i","n","k"," ","s","o","!","!">>)]
MediumMessage == [userMessage |-> Rep("u", 500), botResponse |-> Rep("b", 500)]
LargeMessage ==
    [userMessage |-> Rep("u", MAX_MESSAGE_LENGTH),
     botResponse |-> Rep("b", MAX_MESSAGE_LENGTH)]

MessageHistory ==
    <<SmallMessage, MediumMessage, MediumMessage, LargeMessage>>

MomentHistory ==
    <<[type |-> Lit(<<"n","e","g","a","t","i","v","e">>), summary |-> Lit(<<"l","o","s","t"," ","k","e","y","s">>), intensity |-> 3],
      [type |-> Lit(<<"s","i","g","n","i","f","i","c","a","n","t">>),
       summary |-> Rep("s", MAX_EMOTIONAL_SUMMARY_LENGTH), intensity |-> 9]>>

UserMessages == {Lit(<<"c","o","d","e"," ","h","e","l","p">>)}

\* null, and the arrays of at most max consecutive entries of a history
ArraysOf(history, max) ==
    {NullArr} \cup
    {Arr(SubSeq(history, w[1], w[2])) :
        w \in {v \in (1..(Len(history) + 1)) \X (0..Len(history)) :
                  v[1] <= v[2] + 1 /\ v[2] - v[1] + 1 <= max}}

UserMemories ==
    [userName : UserNames,
     relationshipLevel : RelationshipLevels,
     totalInteractions : InteractionCounts,
     personalDetails : ArraysOf(DetailHistory, MaxEntries),
     recentMessages : ArraysOf(MessageHistory, MaxEntries),
     emotionalMoments : ArraysOf(MomentHistory, MaxEntries)]

NotRun == [tag |-> "none", v |-> <<>>]

InitAssemble ==
    /\ currentOptimizationLevel = "balanced"
    /\ replies = <<>>
    /\ pc = "assemble"
    /\ args \in [userMemory : UserMemories, userMessage : UserMessages]
    /\ ret = [name \in PresetNames |-> NotRun]

\* optimizeMemoryContext(userMemory, userMessage) with the default config,
\* OPTIMIZATION_PRESETS[currentOptimizationLevel] (line 244)
Assemble ==
    /\ pc = "assemble"
    /\ ret[currentOptimizationLevel] = NotRun
    /\ ret' = [ret EXCEPT ![currentOptimizationLevel] =
                  OptimizeMemoryContext(args.userMemory, args.userMessage,
                      OPTIMIZATION_PRESETS[currentOptimizationLevel])]
    /\ UNCHANGED <<currentOptimizationLevel, replies, pc, args>>

\* setOptimizationLevel(level) between two assemblies
SwitchLevel ==
    /\ pc = "assemble"
    /\ ret[currentOptimizationLevel] # NotRun
    /\ \E level \in PresetNames :
         /\ ret[level] = NotRun
         /\ SetOptimizationLevel(level)
    /\ UNCHANGED <<replies, pc, args, ret>>

NextAssemble == Assemble \/ SwitchLevel

SpecAssemble == InitAssemble /\ [][NextAssemble]_vars

\* text.includes(part), for normalised run sequences
Contains(text, part) ==
    \/ part = <<>>
    \/ \E i \in 1..(Len(text) - Len(part) + 1) :
         \A k \in DOMAIN part :
            /\ text[i + k - 1].c = part[k].c
            /\ IF k = 1 \/ k = Len(part)
               THEN text[i + k - 1].n >= part[k].n
               ELSE text[i + k - 1].n = part[k].n

\* the token cost of all the stored exchanges, as the selector formats them
RECURSIVE MessagesTokens(_)
MessagesTokens(msgs) ==
    IF msgs = <<>> THEN 0
    ELSE EstimateTokens(MsgContext(Head(msgs))) + MessagesTokens(Tail(msgs))

C8_CoreKept ==
    \A name \in PresetNames :
        ret[name].tag = "string" =>
            /\ Contains(ret[name].v, args.userMemory.userName)
            /\ Contains(ret[name].v,
                        Trim(ToneDirective(args.userMemory.relationshipLevel)))
            /\ args.userMemory.totalInteractions > 10 <=>
                 Contains(ret[name].v,
                          Trim(InteractionSummary(args.userMemory.totalInteractions)))

NoEntries(array) == array.null \/ array.items = <<>>

EmptyMemory ==
    /\ NoEntries(args.userMemory.personalDetails)
    /\ NoEntries(args.userMemory.recentMessages)
    /\ NoEntries(args.userMemory.emotionalMoments)

\* C9: for a memory whose three arrays are each empty or null, assembly under
\* any preset does not throw and returns a non-empty string that is the core
\* fragment alone (as the preset's compression leaves it).
C9_EmptyMemoryCoreOnly ==
    EmptyMemory =>
        \A name \in PresetNames :
            ret[name] # NotRun =>
                /\ ret[name].tag = "string"
                /\ ret[name].v # <<>>
                /\ ret[name].v =
                     ApplyContextCompression(
                         BuildCorePersonality(args.userMemory),
                         OPTIMIZATION_PRESETS[name].compressionLevel)

C9_Witness ==
    /\ args.userMemory.personalDetails = NullArr
    /\ args.userMemory.recentMessages = Arr(<<>>)
    /\ args.userMemory.emotionalMoments = NullArr
    /\ \A name \in PresetNames : ret[name].tag = "string"

\* C10: the string assembled under economy is no longer, and costs no more
\* tokens, than the one assembled from the same memory and message under
\* balanced.
C10_EconomyAtMostBalanced ==
    (ret["economy"].tag = "string" /\ ret["balanced"].tag = "string") =>
        /\ StrLen(ret["economy"].v) <= StrLen(ret["balanced"].v)
        /\ EstimateTokens(ret["economy"].v) <= EstimateTokens(ret["balanced"].v)

C10_Witness ==
    /\ ret["economy"].tag = "string"
    /\ ret["balanced"].tag = "string"
    /\ Contains(ret["economy"].v, Lit(<<"R","e","c","e","n","t",":">>))
    /\ Contains(ret["economy"].v, Lit(<<"K","n","o","w","n",":">>))
    /\ EstimateTokens(ret["economy"].v) < EstimateTokens(ret["balanced"].v)

\* C12: the assembled string holds an emotional fragment only if the preset
\* has includeEmotionalContext and relationshipLevel > 30; none at 30 or
\* below, and none under efficient or economy.
C12_EmotionalOnlyWhenAllowed ==
    \A name \in PresetNames :
        (ret[name].tag = "string"
            /\ Contains(ret[name].v, Lit(<<"E","m","o","t","i","o","n","a","l",":">>)))
        => /\ OPTIMIZATION_PRESETS[name].includeEmotionalContext
           /\ args.userMemory.relationshipLevel > 30
           /\ name = "balanced"

\* an emotional fragment at relationshipLevel 31, just above the threshold
C12_Witness ==
    /\ ret["balanced"].tag = "string"
    /\ Contains(ret["balanced"].v, Lit(<<"E","m","o","t","i","o","n","a","l",":">>))
    /\ args.userMemory.relationshipLevel = 31

(***************************************************************************)
(* selectPersonalDetails called on its own                                 *)
(***************************************************************************)
\* the largest limit a selection is asked for
MaxLimit == 3

SelectBudgets == {0, 1, 3, 50, 53, 100}

SelectMessages == {Lit(<<"c","o","d","e"," ","h","e","l","p">>), Lit(<<"h","i">>)}

InitSelect ==
    /\ currentOptimizationLevel = "balanced"
    /\ replies = <<>>
    /\ pc = "select"
    /\ args \in [personalDetails : ArraysOf(DetailHistory, MaxEntries),
                 userMessage : SelectMessages,
                 limit : 0..MaxLimit,
                 tokenBudget : SelectBudgets]
    /\ ret = NotRun

Select ==
    /\ pc = "select"
    /\ ret' = SelectPersonalDetails(args.personalDetails, args.userMessage,
                                    args.limit, Quot(args.tokenBudget, 1))
    /\ pc' = "selected"
    /\ UNCHANGED <<currentOptimizationLevel, replies, args>>

NextSelect == Select

SpecSelect == InitSelect /\ [][NextSelect]_vars

\* C4: whenever selectPersonalDetails returns a string, that string, with its
\* prefix and separators, costs at most tokenBudget tokens.
C4_SelectedWithinBudget ==
    (pc = "selected" /\ ret.tag = "string") =>
        EstimateTokens(ret.v) <= args.tokenBudget

(***************************************************************************)
(* selectPersonalDetails on facts whose scores tie                          *)
(***************************************************************************)
MaxFacts == 3

\* Against the message "code" the facts score 1/2, 5/7, 1/7 and 0; they cost
\* 3, 9, 9 and 1 tokens.
RankFacts ==
    {Lit(<<"c","o","d","e"," ","r","u","s","t">>),
     Lit(<<"c","o","d","e"," ","c","o","d","e"," ","c","o","d","e"," ","c","o","d","e"," ","c","o","d","e"," ","r","u","s","t"," ","j","a","v","a">>),
     Lit(<<"c","o","d","e"," ","r","u","s","t"," ","j","a","v","a"," ","p","e","r","l"," ","r","u","b","y"," ","b","a","s","h"," ","l","i","s","p">>),
     Lit(<<"c","a","t","s">>)}

RankMessages == {Lit(<<"c","o","d","e">>), Lit(<<"t","e","a">>)}

RankBudgets == {2, 5, 12, 100}

RECURSIVE SeqsUpTo(_, _)
SeqsUpTo(pool, k) ==
    IF k = 0 THEN {<<>>}
    ELSE SeqsUpTo(pool, k - 1)
             \cup {Append(q, x) : q \in {r \in SeqsUpTo(pool, k - 1) : Len(r) = k - 1},
                                  x \in pool}

InitRank ==
    /\ currentOptimizationLevel = "balanced"
    /\ replies = <<>>
    /\ pc = "rank"
    /\ args \in [personalDetails : {Arr(q) : q \in SeqsUpTo(RankFacts, MaxFacts)},
                 userMessage : RankMessages,
                 limit : 1..MaxFacts,
                 tokenBudget : RankBudgets]
    /\ ret = NotRun

\* selectPersonalDetails(personalDetails, userMessage, limit, tokenBudget)
Rank ==
    /\ pc = "rank"
    /\ ret' = SelectPersonalDetails(args.personalDetails, args.userMessage,
                                    args.limit, Quot(args.tokenBudget, 1))
    /\ pc' = "ranked"
    /\ UNCHANGED <<currentOptimizationLevel, replies, args>>

SpecRank == InitRank /\ [][Rank]_vars

\* a's 0.7 * relevanceScore + 0.3 * (N - index) / N is above b's, as numbers
ExactScoreHigher(a, b, length) ==
    (7 * a.relevanceScore.num * length
        + 3 * (length - a.index) * a.relevanceScore.den) * b.relevanceScore.den
    > (7 * b.relevanceScore.num * length
        + 3 * (length - b.index) * b.relevanceScore.den) * a.relevanceScore.den

\* the facts by descending score, facts of equal score in their given order
ExactRanking(scored) ==
    SortStable(scored,
               [i \in DOMAIN scored |-> [j \in DOMAIN scored |->
                   ExactScoreHigher(scored[i], scored[j], Len(scored))]])

\* C21: the facts are ranked by 0.7 * relevanceScore + 0.3 * (N - i) / N in
\* descending order, facts of equal score in their given order, and the
\* returned string lists them in that order (here with a limit and a budget
\* that let every fact in).
C21_RankedByCombinedScore ==
    (/\ pc = "ranked"
     /\ args.personalDetails.items # <<>>
     /\ args.limit >= Len(args.personalDetails.items)
     /\ args.tokenBudget = 100) =>
        ret = FormatDetails(
                  [k \in DOMAIN args.personalDetails.items |->
                      ExactRanking(ScoredDetails(args.personalDetails.items,
                                                 args.userMessage))[k].detail])

\* the longest prefix of details whose running token cost stays within budget
RECURSIVE FittingPrefix(_, _, _)
FittingPrefix(details, usedTokens, budget) ==
    IF details = <<>> THEN <<>>
    ELSE IF usedTokens + EstimateTokens(Head(details)) <= budget
    THEN <<Head(details)>>
             \o FittingPrefix(Tail(details),
                              usedTokens + EstimateTokens(Head(details)), budget)
    ELSE <<>>

\* the details in the order selectPersonalDetails has ranked them
RankedDetails(details, userMessage) ==
    [k \in DOMAIN details |->
        SortByCombinedScore(ScoredDetails(details, userMessage))[k].detail]

\* C22: the accepted facts are a prefix of the ranked list: of the first
\* maxCount ranked facts, those up to the first one that would push the
\* running token cost over tokenBudget, and none after it.
C22_AcceptedIsRankedPrefix ==
    (pc = "ranked" /\ args.personalDetails.items # <<>>) =>
        ret = FormatDetails(
                  FittingPrefix(
                      Slice0(RankedDetails(args.personalDetails.items,
                                           args.userMessage), args.limit),
                      0, args.tokenBudget))

(***************************************************************************)
(* selectConversationContext called on its own                             *)
(***************************************************************************)
MaxExchanges == 3

\* exchanges that cost 6, 15 and 4 tokens as `User: ...\nBot: ...`
RankExchanges ==
    {[userMessage |-> Lit(<<"c","o","d","e"," ","h","e","l","p">>), botResponse |-> Lit(<<"o","k">>)],
     [userMessage |-> Rep("u", 40), botResponse |-> Rep("b", 9)],
     [userMessage |-> Lit(<<"t","e","a">>), botResponse |-> Lit(<<"n","o">>)]}

ConversationBudgets == {0, 5, 6, 10, 21, 100}

InitConversation ==
    /\ currentOptimizationLevel = "balanced"
    /\ replies = <<>>
    /\ pc = "converse"
    /\ args \in [recentMessages :
                     {Arr(q) : q \in SeqsUpTo(RankExchanges, MaxExchanges)},
                 userMessage : RankMessages,
                 limit : 0..MaxExchanges,
                 tokenBudget : ConversationBudgets,
                 prioritizeRecent : BOOLEAN]
    /\ ret = NotRun

\* selectConversationContext(recentMessages, userMessage, limit, tokenBudget,
\* prioritizeRecent)
Converse ==
    /\ pc = "converse"
    /\ ret' = SelectConversationContext(args.recentMessages, args.userMessage,
                                        args.limit, Quot(args.tokenBudget, 1),
                                        args.prioritizeRecent)
    /\ pc' = "conversed"
    /\ UNCHANGED <<currentOptimizationLevel, replies, args>>

SpecConversation == InitConversation /\ [][Converse]_vars

\* the cost of the first k exchanges, each as `User: ...\nBot: ...`
RECURSIVE ExchangesCost(_, _)
ExchangesCost(exchanges, k) ==
    IF k = 0 THEN 0
    ELSE ExchangesCost(exchanges, k - 1) + EstimateTokens(MsgContext(exchanges[k]))

\* the greatest k, at most maxCount and at most the number of exchanges, with
\* the first k exchanges within budget
LongestWithin(exchanges, maxCount, budget) ==
    CHOOSE k \in 0..Len(exchanges) :
        /\ k <= maxCount
        /\ ExchangesCost(exchanges, k) <= budget
        /\ \A n \in (k + 1)..Len(exchanges) :
               n > maxCount \/ ExchangesCost(exchanges, n) > budget

\* C23: with prioritizeRecent the result holds exactly the longest prefix of
\* the first maxCount exchanges, in their given order, whose cumulative cost
\* stays within tokenBudget, whatever the reference text (null when that
\* prefix is empty).
C23_RecentPrefixWithinBudget ==
    (pc = "conversed" /\ args.prioritizeRecent) =>
        ret = FormatMessages(
                  [k \in 1..LongestWithin(args.recentMessages.items, args.limit,
                                          args.tokenBudget) |->
                      MsgContext(args.recentMessages.items[k])])

\* the second exchange did not fit and the third, which would have, was not
\* taken; the reference text scores the third exchange highest
C23_Witness ==
    /\ pc = "conversed"
    /\ args.prioritizeRecent
    /\ Len(args.recentMessages.items) = 3
    /\ args.limit = 3
    /\ args.tokenBudget = 10
    /\ args.userMessage = Lit(<<"c","o","d","e">>)
    /\ args.recentMessages.items[1].userMessage = Lit(<<"t","e","a">>)
    /\ args.recentMessages.items[2].userMessage = Rep("u", 40)
    /\ args.recentMessages.items[3].userMessage = Lit(<<"c","o","d","e"," ","h","e","l","p">>)
    /\ ret = Str(Cat(Lit(<<"R","e","c","e","n","t",":","\n">>), MsgContext(args.recentMessages.items[1])))

(***************************************************************************)
(* The optimization level and the owner commands (src/unnamed/part_006)    *)
(***************************************************************************)
\* the most replies a behaviour records
MaxReplies == 2

Undefined == [undefined |-> TRUE]

\* getCurrentOptimizationConfig (personality.ts:543-545):
\* OPTIMIZATION_PRESETS[currentOptimizationLevel], undefined for a key the
\* object does not have
GetCurrentOptimizationConfig(level) ==
    IF level \in DOMAIN OPTIMIZATION_PRESETS
    THEN OPTIMIZATION_PRESETS[level]
    ELSE Undefined

\* getOptimizationLevelName (src/unnamed/part_006:191-197); reading a field of
\* undefined throws
GetOptimizationLevelName(level) ==
    LET config == GetCurrentOptimizationConfig(level)
    IN  IF config = Undefined THEN "throw"
        ELSE IF config.maxContextTokens <= 600 THEN "economy"
        ELSE IF config.maxContextTokens <= 1000 THEN "efficient"
        ELSE "balanced"

\* the text of a preset name
LevelText(name) ==
    CASE name = "balanced" -> Lit(<<"b","a","l","a","n","c","e","d">>)
      [] name = "efficient" -> Lit(<<"e","f","f","i","c","i","e","n","t">>)
      [] name = "economy" -> Lit(<<"e","c","o","n","o","m","y">>)

\* text.startsWith(prefix)
StartsWith(text, prefix) ==
    /\ Len(prefix) <= Len(text)
    /\ \A k \in DOMAIN prefix :
          /\ text[k].c = prefix[k].c
          /\ IF k = Len(prefix) THEN text[k].n >= prefix[k].n
             ELSE text[k].n = prefix[k].n

\* text.slice(count)
RECURSIVE SliceFrom(_, _)
SliceFrom(text, count) ==
    IF count = 0 \/ text = <<>> THEN text
    ELSE IF text[1].n <= count THEN SliceFrom(Tail(text), count - text[1].n)
    ELSE <<Run(text[1].c, text[1].n - count)>> \o Tail(text)

OwnerId == "owner"
AuthorIds == {"owner", "guest"}

MessageContents ==
    {Lit(<<"!","b","o","t"," ","o","p","t","i","m","i","z","e"," ","e","c","o","n","o","m","y">>), Lit(<<"!","b","o","t"," ","o","p","t","i","m","i","z","e"," ","E","f","f","i","c","i","e","n","t">>), Lit(<<" "," ","!","b","o","t"," "," "," ","O","P","T","I","M","I","Z","E"," "," ","b","a","l","a","n","c","e","d"," ">>), Lit(<<"!","b","o","t"," ","o","p","t","i","m","i","z","e"," ","t","u","r","b","o">>), Lit(<<"!","b","o","t"," ","o","p","t","i","m","i","z","e">>), Lit(<<"!","b","o","t"," ","s","t","a","t","u","s">>),
     Lit(<<"!","b","o","t"," ","h","e","l","p">>), Lit(<<"!","b","o","t"," ","d","a","n","c","e">>), Lit(<<"h","e","l","l","o"," ","b","o","t">>)}

\* the names setOptimizationLevel is called with directly; its parameter type
\* is erased at run time
LevelArguments == PresetNames \cup {"nonexistent"}

Reply(kind, level) == [kind |-> kind, level |-> level]

\* handleOptimizeCommand (src/unnamed/part_006:98-137): the level it sets and the
\* reply it sends, or a throw that handleBotCommand catches
HandleOptimizeCommand(level, arguments) ==
    IF Len(arguments) = 0
    THEN IF GetCurrentOptimizationConfig(level) = Undefined
         THEN [level |-> level, reply |-> Reply("error", "")]
         ELSE [level |-> level,
               reply |-> Reply("current_settings", GetOptimizationLevelName(level))]
    ELSE LET wanted == ToLowerCase(arguments[1])
         IN  IF \A name \in PresetNames : LevelText(name) # wanted
             THEN [level |-> level, reply |-> Reply("invalid_level", "")]
             ELSE LET name == CHOOSE n \in PresetNames : LevelText(n) = wanted
                  IN  [level |-> name, reply |-> Reply("level_changed", name)]

\* handleStatusCommand (src/unnamed/part_006:143-166)
HandleStatusCommand(level) ==
    IF GetCurrentOptimizationConfig(level) = Undefined
    THEN [level |-> level, reply |-> Reply("error", "")]
    ELSE [level |-> level, reply |-> Reply("status", GetOptimizationLevelName(level))]

NoReply == Reply("none", "")

\* variant of HandleBotCommand: the author is not checked against the owner
HandleBotCommand_AnyAuthor(level, message) ==
    LET content == Trim(message.content)
    IN  IF ~StartsWith(content, Lit(<<"!","b","o","t"," ">>))
        THEN [handled |-> FALSE, level |-> level, reply |-> NoReply]
        ELSE IF ToLowerCase(SplitWhitespace(Trim(SliceFrom(content, 5)))[1])
                    = Lit(<<"o","p","t","i","m","i","z","e">>)
        THEN [handled |-> TRUE,
              level |-> HandleOptimizeCommand(level,
                            Tail(SplitWhitespace(Trim(SliceFrom(content, 5))))).level,
              reply |-> HandleOptimizeCommand(level,
                            Tail(SplitWhitespace(Trim(SliceFrom(content, 5))))).reply]
        ELSE [handled |-> TRUE, level |-> level, reply |-> Reply("status", "")]

\* handleBotCommand (src/unnamed/part_006:38-92): whether the message was handled,
\* the level afterwards and the reply sent
HandleBotCommand(level, message) ==
    LET content == Trim(message.content)
    IN  IF ~StartsWith(content, Lit(<<"!","b","o","t"," ">>))
        THEN [handled |-> FALSE, level |-> level, reply |-> NoReply]
        ELSE IF message.authorId # OwnerId
        THEN [handled |-> TRUE, level |-> level, reply |-> Reply("owner_only", "")]
        ELSE LET arguments == SplitWhitespace(Trim(SliceFrom(content, 5)))
                 command == ToLowerCase(arguments[1])
                 done ==
                     CASE command = Lit(<<"o","p","t","i","m","i","z","e">>) ->
                            HandleOptimizeCommand(level, Tail(arguments))
                       [] command = Lit(<<"s","t","a","t","u","s">>) -> HandleStatusCommand(level)
                       [] command = Lit(<<"h","e","l","p">>) ->
                            [level |-> level, reply |-> Reply("help", "")]
                       [] OTHER ->
                            [level |-> level, reply |-> Reply("unknown_command", "")]
             IN  [handled |-> TRUE, level |-> done.level, reply |-> done.reply]

NoCall == [op |-> "none", level |-> "", before |-> "", outcome |-> "none"]

Init ==
    /\ currentOptimizationLevel = "balanced"
    /\ replies = <<>>
    /\ pc = "idle"
    /\ args = <<>>
    /\ ret = NoCall

\* a direct call of setOptimizationLevel(level): it assigns and returns
SetLevel ==
    \E level \in LevelArguments :
        /\ pc = "idle"
        /\ SetOptimizationLevel(level)
        /\ args' = <<level>>
        /\ ret' = [op |-> "setOptimizationLevel", level |-> level,
                   before |-> currentOptimizationLevel, outcome |-> "returned"]
        /\ UNCHANGED <<replies, pc>>

\* a direct call of getCurrentOptimizationConfig()
GetConfig ==
    /\ pc = "idle"
    /\ args' = <<>>
    /\ ret' = [op |-> "getCurrentOptimizationConfig",
               level |-> currentOptimizationLevel,
               before |-> currentOptimizationLevel,
               outcome |-> IF GetCurrentOptimizationConfig(currentOptimizationLevel)
                                = Undefined
                           THEN "undefined" ELSE "config"]
    /\ UNCHANGED <<currentOptimizationLevel, replies, pc>>

\* handleBotCommand(message) for a message of any author
BotCommand ==
    \E message \in [authorId : AuthorIds, content : MessageContents] :
        \E done \in {HandleBotCommand(currentOptimizationLevel, message)} :
            /\ pc = "idle"
            /\ done.reply # NoReply => Len(replies) < MaxReplies
            /\ currentOptimizationLevel' = done.level
            /\ replies' = IF done.reply = NoReply THEN replies
                          ELSE Append(replies, done.reply)
            /\ args' = <<message>>
            /\ ret' = [op |-> "handleBotCommand", level |-> done.level,
                       before |-> currentOptimizationLevel,
                       outcome |-> IF done.handled THEN "true" ELSE "false"]
            /\ UNCHANGED pc

Next == SetLevel \/ GetConfig \/ BotCommand

Spec == Init /\ [][Next]_vars

\* C3: setOptimizationLevel called with a name that is no preset fails with
\* InvalidPresetName and leaves the level as it was before the call.
C3_InvalidNameRejected ==
    (ret.op = "setOptimizationLevel" /\ ret.level \notin PresetNames) =>
        /\ ret.outcome = "InvalidPresetName"
        /\ currentOptimizationLevel = ret.before

\* C14: in every reachable state the active level names one of the three
\* presets (it starts as balanced).
C14_ActiveIsNamedPreset ==
    currentOptimizationLevel \in PresetNames

\* balanced comes before efficient, efficient before economy
PresetRank(name) ==
    CASE name = "balanced" -> 1 [] name = "efficient" -> 2 [] name = "economy" -> 3

\* C18: maxContextTokens, maxResponseTokens, personalDetailsLimit and
\* recentMessagesLimit each strictly decrease from balanced to efficient to
\* economy: the configuration of the active preset is strictly above that of
\* every preset after it.
C18_PresetsStrictlyDecrease ==
    \A later \in PresetNames :
        (/\ currentOptimizationLevel \in PresetNames
         /\ PresetRank(currentOptimizationLevel) < PresetRank(later)) =>
            /\ GetCurrentOptimizationConfig(currentOptimizationLevel).maxContextTokens
                   > OPTIMIZATION_PRESETS[later].maxContextTokens
            /\ GetCurrentOptimizationConfig(currentOptimizationLevel).maxResponseTokens
                   > OPTIMIZATION_PRESETS[later].maxResponseTokens
            /\ GetCurrentOptimizationConfig(currentOptimizationLevel).personalDetailsLimit
                   > OPTIMIZATION_PRESETS[later].personalDetailsLimit
            /\ GetCurrentOptimizationConfig(currentOptimizationLevel).recentMessagesLimit
                   > OPTIMIZATION_PRESETS[later].recentMessagesLimit

\* the owner has switched to efficient, which has presets on both sides
C18_Witness ==
    /\ currentOptimizationLevel = "efficient"
    /\ ret.op = "handleBotCommand"
    /\ Len(replies) > 0
    /\ GetCurrentOptimizationConfig(currentOptimizationLevel).maxContextTokens
           < OPTIMIZATION_PRESETS["balanced"].maxContextTokens
    /\ GetCurrentOptimizationConfig(currentOptimizationLevel).maxContextTokens
           > OPTIMIZATION_PRESETS["economy"].maxContextTokens

(***************************************************************************)
(* selectEmotionalContext called on its own                                *)
(***************************************************************************)
\* the longest emotionalMoments array a selection is given
MaxMoments == 3

MomentPool ==
    {[type |-> Lit(<<"p","o","s","i","t","i","v","e">>), summary |-> Lit(<<"w","o","n">>), intensity |-> 7],
     [type |-> Lit(<<"n","e","g","a","t","i","v","e">>), summary |-> Lit(<<"s","a","d">>), intensity |-> 6],
     [type |-> Lit(<<"s","i","g","n","i","f","i","c","a","n","t">>), summary |-> Lit(<<"w","e","d">>), intensity |-> 9],
     [type |-> Lit(<<"n","e","g","a","t","i","v","e">>), summary |-> Lit(<<"m","e","h">>), intensity |-> 3]}

InitEmotional ==
    /\ currentOptimizationLevel = "balanced"
    /\ replies = <<>>
    /\ pc = "selectEmotional"
    /\ args \in [emotionalMoments :
                     {NullArr} \cup
                     {Arr(items) : items \in UNION {[1..n -> MomentPool] : n \in 0..MaxMoments}},
                 tokenBudget : {0, 3, 4, 6, 7, 100}]
    /\ ret = NotRun

SelectEmotional ==
    /\ pc = "selectEmotional"
    /\ ret' = SelectEmotionalContext(args.emotionalMoments,
                                     Quot(args.tokenBudget, 1))
    /\ pc' = "selectedEmotional"
    /\ UNCHANGED <<currentOptimizationLevel, replies, args>>

SpecEmotional == InitEmotional /\ [][SelectEmotional]_vars

\* the positions of the moments with intensity >= 6, and those of them with
\* fewer than two such positions before them
SignificantAt(items) == {i \in DOMAIN items : items[i].intensity >= 6}
ListedAt(items) ==
    {i \in SignificantAt(items) :
        Cardinality({j \in SignificantAt(items) : j < i}) < 2}

\* the moments at the given positions, in array order, as `type: summary`
\* joined by '; '
RECURSIVE ListedText(_, _, _)
ListedText(items, at, from) ==
    IF from > Len(items) THEN <<>>
    ELSE IF from \notin at THEN ListedText(items, at, from + 1)
    ELSE IF \E j \in at : j > from
         THEN CatAll(<<items[from].type, Lit(<<":"," ">>), items[from].summary,
                      Lit(<<";"," ">>), ListedText(items, at, from + 1)>>)
         ELSE CatAll(<<items[from].type, Lit(<<":"," ">>), items[from].summary>>)

\* C11: a non-null result lists exactly the first min(2, k) of the k moments
\* with intensity >= 6, in array order, and nothing else; the result is null
\* exactly when k = 0 or that whole text does not fit tokenBudget.
C11_AllOrNothing ==
    pc = "selectedEmotional" =>
        \E items \in {IF args.emotionalMoments.null THEN <<>>
                       ELSE args.emotionalMoments.items} :
        \E text \in {ListedText(items, ListedAt(items), 1)} :
            /\ Cardinality(ListedAt(items))
                   = (IF Cardinality(SignificantAt(items)) < 2
                      THEN Cardinality(SignificantAt(items)) ELSE 2)
            /\ ret.tag \in {"string", "null"}
            /\ ret.tag = "null" <=>
                   \/ SignificantAt(items) = {}
                   \/ EstimateTokens(text) > args.tokenBudget
            /\ ret.tag = "string" =>
                   ret.v = CatAll(<<Lit(<<"E","m","o","t","i","o","n","a","l",":"," ">>), text, Lit(<<".">>)>>)

\* two significant moments that fit one by one but not together: null
C11_Witness ==
    /\ pc = "selectedEmotional"
    /\ ret.tag = "null"
    /\ ~args.emotionalMoments.null
    /\ Cardinality(SignificantAt(args.emotionalMoments.items)) = 2
    /\ args.tokenBudget = 4

(***************************************************************************)
(* optimizeMemoryContext with setOptimizationLevel between its statements  *)
(*                                                                         *)
(* The call is synchronous, so the runtime lets nothing run between its    *)
(* statements.  The model lets setOptimizationLevel run between any two of *)
(* them all the same: whatever holds here holds of the program.            *)
(***************************************************************************)
\* variant of StepConfig: the module variable read again at every statement
StepConfig_Reread(config, level) ==
    IF level \in PresetNames THEN OPTIMIZATION_PRESETS[level]
    ELSE IF config = Undefined THEN OPTIMIZATION_PRESETS["balanced"]
    ELSE config

\* the configuration a statement of the call reads: its parameter config,
\* bound once by the default of line 244
StepConfig(config, level) == config

InitConcurrent ==
    /\ currentOptimizationLevel = "balanced"
    /\ replies = <<>>
    /\ pc = "entry"
    /\ args \in [userMemory : {m \in UserMemories :
                                  /\ m.userName = Rep("N", MAX_USERNAME_LENGTH)
                                  /\ m.totalInteractions = 11
                                  /\ m.relationshipLevel = 60},
                 userMessage : UserMessages]
    /\ ret = [entry |-> "none", config |-> Undefined, state |-> Undefined,
              interleaved |-> FALSE, result |-> NotRun]

\* one statement group of optimizeMemoryContext: the binding of config at
\* entry, lines 246-253, 256-265, 268-278, 281-289 and 291-294.  An undefined
\* config makes line 247 throw.
AssembleStep ==
    /\ pc \in {"entry", "core", "personal", "conversation", "emotional", "join"}
    /\ \E config \in {StepConfig(ret.config, currentOptimizationLevel)} :
        IF pc = "entry"
        THEN /\ ret' = [ret EXCEPT
                           !.entry = currentOptimizationLevel,
                           !.config = GetCurrentOptimizationConfig(currentOptimizationLevel)]
             /\ pc' = "core"
        ELSE IF pc = "core" /\ config = Undefined
        THEN /\ ret' = [ret EXCEPT !.result = Threw]
             /\ pc' = "done"
        ELSE IF pc = "core"
        THEN /\ ret' = [ret EXCEPT !.state =
                           CoreStep(args.userMemory, config,
                                    BuildCorePersonality(args.userMemory))]
             /\ pc' = "personal"
        ELSE IF pc = "personal"
        THEN /\ ret' = [ret EXCEPT !.state =
                           PersonalStep(ret.state, args.userMemory,
                                        args.userMessage, config)]
             /\ pc' = "conversation"
        ELSE IF pc = "conversation"
        THEN /\ ret' = [ret EXCEPT !.state =
                           ConversationStep(ret.state, args.userMemory,
                                            args.userMessage, config)]
             /\ pc' = "emotional"
        ELSE IF pc = "emotional"
        THEN /\ ret' = [ret EXCEPT !.state =
                           EmotionalStep(ret.state, args.userMemory, config)]
             /\ pc' = "join"
        ELSE /\ ret' = [ret EXCEPT !.result =
                           JoinAndCompress(ret.state, config.compressionLevel)]
             /\ pc' = "done"
    /\ UNCHANGED <<currentOptimizationLevel, replies, args>>

\* setOptimizationLevel, with a valid or an invalid name, at any moment
SetLevelMeanwhile ==
    /\ \E level \in LevelArguments \ {currentOptimizationLevel} :
           SetOptimizationLevel(level)
    /\ ret' = [ret EXCEPT !.interleaved = @ \/ pc \notin {"entry", "done"}]
    /\ UNCHANGED <<replies, pc, args>>

NextConcurrent == AssembleStep \/ SetLevelMeanwhile

SpecConcurrent == InitConcurrent /\ [][NextConcurrent]_vars

\* C13: whatever setOptimizationLevel does meanwhile, a call that entered
\* under a named preset returns what that one preset alone yields: budget,
\* limits, flags and compression level all come from the preset active at
\* entry.
C13_OnePresetPerCall ==
    (pc = "done" /\ ret.entry \in PresetNames) =>
        ret.result = OptimizeMemoryContext(args.userMemory, args.userMessage,
                                           OPTIMIZATION_PRESETS[ret.entry])

\* a call that entered under balanced, saw the level change while it ran and
\* ended under economy, whose result for the same input differs
C13_Witness ==
    /\ pc = "done"
    /\ ret.entry = "balanced"
    /\ ret.interleaved
    /\ currentOptimizationLevel = "economy"
    /\ ret.result.tag = "string"
    /\ ret.result # OptimizeMemoryContext(args.userMemory, args.userMessage,
                                          OPTIMIZATION_PRESETS["economy"])

\* a fragment as pushed (nothing for null) and what it takes from the budget
Present(context) == IF context.tag = "string" THEN <<context.v>> ELSE <<>>

CostOf(context) == IF context.tag = "string" THEN EstimateTokens(context.v) ELSE 0

\* the emotional fragment for 0.2 of what is left
EmotionalShare(userMemory, config, remaining) ==
    IF config.includeEmotionalContext /\ userMemory.relationshipLevel > 30
    THEN SelectEmotionalContext(userMemory.emotionalMoments, Quot(remaining, 5))
    ELSE JsNull

\* the fragments from the conversation one on, `remaining` being what was
\* left when the conversation selector was called
FromConversation(userMemory, config, remaining, conversation) ==
    Present(conversation)
        \o Present(EmotionalShare(userMemory, config,
                                  remaining - CostOf(conversation)))

\* the fragments from the personal one on, `remaining` being what the core
\* left
FromPersonal(userMemory, userMessage, config, remaining, personal) ==
    Present(personal)
        \o FromConversation(userMemory, config, remaining - CostOf(personal),
               SelectConversationContext(userMemory.recentMessages, userMessage,
                   config.recentMessagesLimit,
                   Quot(remaining - CostOf(personal), 2),
                   config.prioritizeRecent))

SharesOfRemaining(userMemory, userMessage, config, remaining) ==
    FromPersonal(userMemory, userMessage, config, remaining,
        SelectPersonalDetails(userMemory.personalDetails, userMessage,
                              config.personalDetailsLimit,
                              Quot(3 * remaining, 10)))

\* C24: the personal step is given 0.3 of what the core left, the
\* conversation step 0.5 of that less the cost of the personal fragment
\* pushed, the emotional step 0.2 of that less the cost of the conversation
\* fragment pushed, and the fragments are joined in the order core, personal,
\* conversation, emotional.
C24_SharesOfShrinkingBudget ==
    (pc \in {"join", "done"} /\ ret.entry \in PresetNames /\ ~ret.state.threw) =>
        ret.state.contextParts =
            <<BuildCorePersonality(args.userMemory)>>
                \o SharesOfRemaining(args.userMemory, args.userMessage,
                       OPTIMIZATION_PRESETS[ret.entry],
                       OPTIMIZATION_PRESETS[ret.entry].maxContextTokens
                           - EstimateTokens(BuildCorePersonality(args.userMemory)))

\* a conversation fragment was pushed after the core, and half of the whole
\* budget would have let another one through
C24_Witness ==
    /\ pc = "done"
    /\ ret.entry \in PresetNames
    /\ \E k \in 2..Len(ret.state.contextParts) :
         /\ StartsWith(ret.state.contextParts[k],
                       Lit(<<"R","e","c","e","n","t",":","\n">>))
         /\ Str(ret.state.contextParts[k]) #
                SelectConversationContext(args.userMemory.recentMessages,
                    args.userMessage,
                    OPTIMIZATION_PRESETS[ret.entry].recentMessagesLimit,
                    Quot(OPTIMIZATION_PRESETS[ret.entry].maxContextTokens, 2),
                    OPTIMIZATION_PRESETS[ret.entry].prioritizeRecent)

(***************************************************************************)
(* optimizeMemoryContext with a config of the caller's                     *)
(*                                                                         *)
(* config is the third parameter of the exported function (line 244); the  *)
(* presets are only its default.                                           *)
(***************************************************************************)
\* maxContextTokens below, at and above the cost of the core fragment (22 to
\* 34 tokens), and the preset's own
ContextTotals == {10, 22, 40}

CallerConfigs ==
    {OPTIMIZATION_PRESETS[name] : name \in PresetNames} \cup
    {[OPTIMIZATION_PRESETS[name] EXCEPT !.maxContextTokens = total] :
        name \in PresetNames, total \in ContextTotals}

InitBudget ==
    /\ currentOptimizationLevel = "balanced"
    /\ replies = <<>>
    /\ pc = "core"
    /\ args \in [userMemory : {m \in UserMemories :
                                  /\ m.relationshipLevel \in {19, 60}
                                  /\ ~m.personalDetails.null
                                  /\ ~m.recentMessages.null
                                  /\ ~m.emotionalMoments.null
                                  /\ Len(m.recentMessages.items) <= 1},
                 userMessage : UserMessages,
                 config : CallerConfigs]
    /\ ret = [state |-> Undefined, result |-> NotRun]

\* one statement group of optimizeMemoryContext(userMemory, userMessage,
\* config): lines 246-253, 256-265, 268-278, 281-289 and 291-294; state holds
\* the locals contextParts and tokenBudget as the group leaves them
BudgetStep ==
    /\ pc \in {"core", "personal", "conversation", "emotional", "join"}
    /\ IF pc = "core"
       THEN /\ ret' = [ret EXCEPT !.state =
                          CoreStep(args.userMemory, args.config,
                                   BuildCorePersonality(args.userMemory))]
            /\ pc' = "personal"
       ELSE IF pc = "personal"
       THEN /\ ret' = [ret EXCEPT !.state =
                          PersonalStep(ret.state, args.userMemory,
                                       args.userMessage, args.config)]
            /\ pc' = "conversation"
       ELSE IF pc = "conversation"
       THEN /\ ret' = [ret EXCEPT !.state =
                          ConversationStep(ret.state, args.userMemory,
                                           args.userMessage, args.config)]
            /\ pc' = "emotional"
       ELSE IF pc = "emotional"
       THEN /\ ret' = [ret EXCEPT !.state =
                          EmotionalStep(ret.state, args.userMemory, args.config)]
            /\ pc' = "join"
       ELSE /\ ret' = [ret EXCEPT !.result =
                          JoinAndCompress(ret.state, args.config.compressionLevel)]
            /\ pc' = "done"
    /\ UNCHANGED <<currentOptimizationLevel, replies, args>>

SpecBudget == InitBudget /\ [][BudgetStep]_vars

\* C25: the remaining budget is floored at 0: whatever the core fragment and
\* the fragments pushed after it cost, tokenBudget is never negative when a
\* selector is given its share of it.
C25_RemainingNeverNegative ==
    pc \in {"personal", "conversation", "emotional", "join", "done"} =>
        ret.state.tokenBudget >= 0

\* under the three presets as they are, the core fragment of a memory within
\* the service's limits leaves a positive budget at every step
C25_PresetsLeaveBudget ==
    (/\ pc \in {"personal", "conversation", "emotional", "join", "done"}
     /\ args.config \in {OPTIMIZATION_PRESETS[name] : name \in PresetNames}) =>
        ret.state.tokenBudget > 0

(***************************************************************************)
(* The arrays the selectors are given, after the call                      *)
(*                                                                         *)
(* Array.prototype.sort reorders its receiver in place; map, filter, slice *)
(* and the spread of an element return new objects.  The arrays a selector *)
(* holds are kept by the name of the variable that refers to them.         *)
(***************************************************************************)
SortInPlace(arrays, receiver, higher) ==
    [arrays EXCEPT ![receiver] = SortStable(@, higher)]

\* variant of PersonalDetailsAfter: the sort called on personalDetails itself
PersonalDetailsAfter_SortsInput(personalDetails, userMessage, limit) ==
    IF personalDetails.null \/ Len(personalDetails.items) = 0 \/ limit = 0
    THEN personalDetails
    ELSE Arr(SortInPlace(
                 [personalDetails |-> personalDetails.items,
                  scoredDetails |-> ScoredDetails(personalDetails.items, userMessage)],
                 "personalDetails",
                 [i \in DOMAIN personalDetails.items |->
                     [j \in DOMAIN personalDetails.items |->
                         CombinedScoreHigher(
                             ScoredDetails(personalDetails.items, userMessage)[i],
                             ScoredDetails(personalDetails.items, userMessage)[j])]]).personalDetails)

\* selectPersonalDetails, lines 334-350: personalDetails once map has made
\* scoredDetails and scoredDetails.sort has run
PersonalDetailsAfter(personalDetails, userMessage, limit) ==
    IF personalDetails.null \/ Len(personalDetails.items) = 0 \/ limit = 0
    THEN personalDetails
    ELSE Arr(SortInPlace(
                 [personalDetails |-> personalDetails.items,
                  scoredDetails |-> ScoredDetails(personalDetails.items, userMessage)],
                 "scoredDetails",
                 [i \in DOMAIN personalDetails.items |->
                     [j \in DOMAIN personalDetails.items |->
                         CombinedScoreHigher(
                             ScoredDetails(personalDetails.items, userMessage)[i],
                             ScoredDetails(personalDetails.items, userMessage)[j])]]).personalDetails)

\* selectConversationContext, lines 377-390: recentMessages once slice has
\* made selectedMessages and, unless prioritizeRecent, map has made
\* scoredMessages and scoredMessages.sort has run
RecentMessagesAfter(recentMessages, userMessage, limit, prioritizeRecent) ==
    IF recentMessages.null \/ Len(recentMessages.items) = 0 \/ limit = 0
           \/ prioritizeRecent
    THEN recentMessages
    ELSE Arr(SortInPlace(
                 [recentMessages |-> recentMessages.items,
                  selectedMessages |-> Slice0(recentMessages.items, limit),
                  scoredMessages |-> ScoredMessages(recentMessages.items, userMessage)],
                 "scoredMessages",
                 [i \in DOMAIN recentMessages.items |->
                     [j \in DOMAIN recentMessages.items |->
                         RelevanceHigher(
                             ScoredMessages(recentMessages.items, userMessage)[i],
                             ScoredMessages(recentMessages.items, userMessage)[j])]]).recentMessages)

NoFrameCall == [op |-> "none", before |-> <<>>, result |-> NotRun]

InitFrame ==
    /\ currentOptimizationLevel = "balanced"
    /\ replies = <<>>
    /\ pc = "frame"
    /\ args \in [userName : {Rep("N", MAX_USERNAME_LENGTH)},
                 relationshipLevel : {60},
                 totalInteractions : {11},
                 personalDetails : ArraysOf(DetailHistory, MaxEntries),
                 recentMessages : ArraysOf(<<MediumMessage, SmallMessage>>, MaxEntries),
                 emotionalMoments : ArraysOf(MomentHistory, MaxEntries)]
    /\ ret = NoFrameCall

FrameMessages == {Lit(<<"c","o","d","e"," ","h","e","l","p">>), Lit(<<"t","i","r","e","d",".",".">>)}

CallSelectPersonalDetails ==
    \E userMessage \in FrameMessages, limit \in 0..MaxLimit :
        /\ pc = "frame"
        /\ ret' = [op |-> "selectPersonalDetails", before |-> args,
                   result |-> SelectPersonalDetails(args.personalDetails,
                                  userMessage, limit, Quot(100, 1))]
        /\ args' = [args EXCEPT !.personalDetails =
                       PersonalDetailsAfter(@, userMessage, limit)]
        /\ UNCHANGED <<currentOptimizationLevel, replies, pc>>

CallSelectConversationContext ==
    \E userMessage \in FrameMessages, limit \in 0..MaxLimit,
       prioritizeRecent \in BOOLEAN :
        /\ pc = "frame"
        /\ ret' = [op |-> "selectConversationContext", before |-> args,
                   result |-> SelectConversationContext(args.recentMessages,
                                  userMessage, limit, Quot(300, 1),
                                  prioritizeRecent)]
        /\ args' = [args EXCEPT !.recentMessages =
                       RecentMessagesAfter(@, userMessage, limit, prioritizeRecent)]
        /\ UNCHANGED <<currentOptimizationLevel, replies, pc>>

\* filter, slice, map and join: no operation of the call works in place
CallSelectEmotionalContext ==
    \E tokenBudget \in {0, 100} :
        /\ pc = "frame"
        /\ ret' = [op |-> "selectEmotionalContext", before |-> args,
                   result |-> SelectEmotionalContext(args.emotionalMoments,
                                  Quot(tokenBudget, 1))]
        /\ UNCHANGED <<currentOptimizationLevel, replies, pc, args>>

\* optimizeMemoryContext passes the arrays of userMemory to the selectors
CallOptimizeMemoryContext ==
    \E userMessage \in FrameMessages, name \in PresetNames :
        /\ pc = "frame"
        /\ ret' = [op |-> "optimizeMemoryContext", before |-> args,
                   result |-> OptimizeMemoryContext(args, userMessage,
                                  OPTIMIZATION_PRESETS[name])]
        /\ args' = [args EXCEPT
                       !.personalDetails =
                           PersonalDetailsAfter(@, userMessage,
                               OPTIMIZATION_PRESETS[name].personalDetailsLimit),
                       !.recentMessages =
                           RecentMessagesAfter(@, userMessage,
                               OPTIMIZATION_PRESETS[name].recentMessagesLimit,
                               OPTIMIZATION_PRESETS[name].prioritizeRecent)]
        /\ UNCHANGED <<currentOptimizationLevel, replies, pc>>

NextFrame ==
    \/ CallSelectPersonalDetails
    \/ CallSelectConversationContext
    \/ CallSelectEmotionalContext
    \/ CallOptimizeMemoryContext

SpecFrame == InitFrame /\ [][NextFrame]_vars

\* C15: after any call of a selector or of optimizeMemoryContext, the memory
\* holds the same elements in the same order, and the same other fields, as
\* before the call.
C15_InputsNotMutated ==
    ret.op # "none" => args = ret.before

\* a selection whose best detail is not the first one stored: the sort put
\* it first in the result
C15_Witness ==
    /\ ret.op = "selectPersonalDetails"
    /\ ret.result.tag = "string"
    /\ Len(args.personalDetails.items) = 2
    /\ ret.result.v =
           CatAll(<<Lit(<<"K","n","o","w","n",":"," ">>),
                    args.personalDetails.items[2], Lit(<<","," ">>),
                    args.personalDetails.items[1], Lit(<<".">>)>>)

(***************************************************************************)
(* calculateTokenAnalytics (personality.ts:498-526)                        *)
(*                                                                         *)
(* The quotients are kept exact.  The doubles of the program are their     *)
(* nearest values: 0 and 1 are exact, and rounding keeps the order.        *)
(***************************************************************************)
\* an optional argument left out
Absent == [tag |-> "undefined", v |-> <<>>]

\* variant of ContextReduction: without Math.max(0, ...)
ContextReduction_Unclamped(inputTokens, originalInputText) ==
    IF originalInputText.tag = "undefined" \/ originalInputText.v = <<>>
    THEN Quot(0, 1)
    ELSE Quot(EstimateTokens(originalInputText.v) - inputTokens,
              EstimateTokens(originalInputText.v))

\* lines 513-515; an empty originalInputText is falsy
ContextReduction(inputTokens, originalInputText) ==
    IF originalInputText.tag = "undefined" \/ originalInputText.v = <<>>
    THEN Quot(0, 1)
    ELSE IF EstimateTokens(originalInputText.v) - inputTokens < 0
    THEN Quot(0, 1)
    ELSE Quot(EstimateTokens(originalInputText.v) - inputTokens,
              EstimateTokens(originalInputText.v))

\* line 524: Math.max(0.4, 1 - (contextReduction * 0.5))
QualityScore(contextReduction) ==
    IF 5 * (2 * contextReduction.den - contextReduction.num)
           < 2 * (2 * contextReduction.den)
    THEN Quot(2, 5)
    ELSE Quot(2 * contextReduction.den - contextReduction.num,
              2 * contextReduction.den)

\* estimatedCost is in dollars: 3 and 15 per million tokens
CalculateTokenAnalytics(inputText, outputText, originalInputText, level) ==
    [inputTokens |-> EstimateTokens(inputText),
     outputTokens |-> EstimateTokens(outputText),
     totalTokens |-> EstimateTokens(inputText) + EstimateTokens(outputText),
     estimatedCost |-> Quot(EstimateTokens(inputText) * 3
                                + EstimateTokens(outputText) * 15, 1000000),
     optimizationLevel |-> level,
     contextReduction |->
         ContextReduction(EstimateTokens(inputText), originalInputText),
     qualityScore |->
         QualityScore(ContextReduction(EstimateTokens(inputText),
                                       originalInputText))]

\* the longest run of a text given to the analytics is MaxRun characters of
\* one kind; texts of 0 to MaxRun characters and one of MAX_MESSAGE_LENGTH
MaxRun == 9

AnalyticsTexts ==
    {Rep("x", n) : n \in 1..MaxRun} \cup {<<>>, Rep("x", MAX_MESSAGE_LENGTH)}

InitAnalytics ==
    /\ currentOptimizationLevel = "balanced"
    /\ replies = <<>>
    /\ pc = "analyze"
    /\ args \in [inputText : AnalyticsTexts,
                 outputText : {<<>>, Rep("y", 5), Rep("y", 8)},
                 originalInputText :
                     {Absent} \cup {Str(text) : text \in AnalyticsTexts}]
    /\ ret = NotRun

Analyze ==
    /\ pc = "analyze"
    /\ ret' = CalculateTokenAnalytics(args.inputText, args.outputText,
                  args.originalInputText, currentOptimizationLevel)
    /\ pc' = "analyzed"
    /\ UNCHANGED <<currentOptimizationLevel, replies, args>>

SpecAnalytics == InitAnalytics /\ [][Analyze]_vars

\* C16: totalTokens = inputTokens + outputTokens, each count being the least
\* integer that is at least a quarter of the text's length.
C16_TotalIsSum ==
    pc = "analyzed" =>
        /\ ret.totalTokens = ret.inputTokens + ret.outputTokens
        /\ 4 * ret.inputTokens >= StrLen(args.inputText)
        /\ 4 * (ret.inputTokens - 1) < StrLen(args.inputText)
        /\ 4 * ret.outputTokens >= StrLen(args.outputText)
        /\ 4 * (ret.outputTokens - 1) < StrLen(args.outputText)

\* texts whose lengths are no multiples of 4
C16_Witness ==
    /\ pc = "analyzed"
    /\ StrLen(args.inputText) = 9
    /\ StrLen(args.outputText) = 5
    /\ ret.totalTokens = 5

\* C17: contextReduction lies in [0,1]; qualityScore is
\* max(0.4, 1 - 0.5 * contextReduction) and lies in [0.4,1]; with the
\* original text equal to the input text, or absent, contextReduction is 0
\* and qualityScore is 1.
C17_ReductionAndQualityRanges ==
    pc = "analyzed" =>
        /\ ret.contextReduction.den > 0 /\ ret.qualityScore.den > 0
        /\ 0 <= ret.contextReduction.num
        /\ ret.contextReduction.num <= ret.contextReduction.den
        /\ 5 * ret.qualityScore.num >= 2 * ret.qualityScore.den
        /\ ret.qualityScore.num <= ret.qualityScore.den
        /\ \/ /\ 5 * (2 * ret.contextReduction.den - ret.contextReduction.num)
                     >= 2 * (2 * ret.contextReduction.den)
              /\ ret.qualityScore.num * (2 * ret.contextReduction.den)
                     = (2 * ret.contextReduction.den - ret.contextReduction.num)
                           * ret.qualityScore.den
           \/ /\ 5 * (2 * ret.contextReduction.den - ret.contextReduction.num)
                     < 2 * (2 * ret.contextReduction.den)
              /\ 5 * ret.qualityScore.num = 2 * ret.qualityScore.den
        /\ (args.originalInputText = Absent
                \/ args.originalInputText = Str(args.inputText))
           => /\ ret.contextReduction.num = 0
              /\ ret.qualityScore.num = ret.qualityScore.den

\* an original text given and equal to a non-empty input text
C17_Witness ==
    /\ pc = "analyzed"
    /\ args.inputText # <<>>
    /\ args.originalInputText = Str(args.inputText)
    /\ ret.qualityScore.num = ret.qualityScore.den

(***************************************************************************)
(* The memory service (src/unnamed/part_007): addRecentMessage,            *)
(* addEmotionalMoment and addPersonalDetail on one user's document.  args  *)
(* holds the document as the store has it, ret what the last call was      *)
(* given and the document it found.  The calls are taken one after         *)
(* another, each running from its lookup to its save.                      *)
(***************************************************************************)

\* BOT_CONFIG of constants.ts, the three caps
BOT_CONFIG ==
    [maxRecentMessages |-> 8, maxEmotionalMoments |-> 15,
     maxPersonalDetails |-> 20]

MaxAdds == 3

\* text.slice(0, count)
RECURSIVE SliceTo(_, _)
SliceTo(text, count) ==
    IF count <= 0 \/ text = <<>> THEN <<>>
    ELSE IF text[1].n <= count
         THEN Cat(<<text[1]>>, SliceTo(Tail(text), count - text[1].n))
    ELSE <<Run(text[1].c, count)>>

\* personalDetails.includes(detail)
Includes(items, item) == \E i \in DOMAIN items : items[i] = item

\* unshift(entry), then slice(0, cap) when the array has grown past cap
UnshiftCapped(items, entry, cap) ==
    IF Len(<<entry>> \o items) > cap
    THEN Slice0(<<entry>> \o items, cap)
    ELSE <<entry>> \o items

\* variant of PersonalDetailsAdded: the duplicate check looks for the detail
\* as given, not as truncated
PersonalDetailsAdded_ChecksUntrimmed(personalDetails, detail) ==
    IF ~Includes(personalDetails, detail)
    THEN UnshiftCapped(personalDetails,
                       SliceTo(detail, MAX_PERSONAL_DETAIL_LENGTH),
                       BOT_CONFIG.maxPersonalDetails)
    ELSE personalDetails

\* memory.personalDetails after addPersonalDetail (lines 179-186)
PersonalDetailsAdded(personalDetails, detail) ==
    IF ~Includes(personalDetails, SliceTo(detail, MAX_PERSONAL_DETAIL_LENGTH))
    THEN UnshiftCapped(personalDetails,
                       SliceTo(detail, MAX_PERSONAL_DETAIL_LENGTH),
                       BOT_CONFIG.maxPersonalDetails)
    ELSE personalDetails

\* newMessage of addRecentMessage (lines 117-122); now is new Date()
NewMessage(userMessage, botResponse, tokens, now) ==
    [timestamp |-> now,
     userMessage |-> SliceTo(userMessage, MAX_MESSAGE_LENGTH),
     botResponse |-> SliceTo(botResponse, MAX_MESSAGE_LENGTH),
     tokens |-> tokens]

\* newMoment of addEmotionalMoment (lines 150-154)
NewMoment(moment, now) ==
    [type |-> moment.type, intensity |-> moment.intensity,
     timestamp |-> now,
     summary |-> SliceTo(moment.summary, MAX_EMOTIONAL_SUMMARY_LENGTH)]

\* Documents the store can hold when a call arrives: k entries added
\* earlier, the newest first.
StoredDetails(k) == [i \in 1..k |-> Rep("d", k + 1 - i)]

StoredMessages(k) ==
    [i \in 1..k |-> NewMessage(Rep("u", k + 1 - i), Rep("b", 1), 25, k + 1 - i)]

StoredMoments(k) ==
    [i \in 1..k |->
        NewMoment([type |-> "positive", intensity |-> 7,
                   summary |-> Rep("s", k + 1 - i)], k + 1 - i)]

DetailInputs ==
    {Rep("e", 3), Rep("d", 1), Rep("n", MAX_PERSONAL_DETAIL_LENGTH),
     Rep("n", MAX_PERSONAL_DETAIL_LENGTH + 1)}

MessageInputs ==
    {[userMessage |-> Rep("u", MAX_MESSAGE_LENGTH + 1),
      botResponse |-> Rep("b", 2), tokens |-> 50],
     [userMessage |-> Rep("u", 1),
      botResponse |-> Rep("b", MAX_MESSAGE_LENGTH + 1), tokens |-> 25]}

MomentInputs ==
    {[type |-> "negative", intensity |-> 3, summary |-> Rep("s", 1)],
     [type |-> "significant", intensity |-> 9,
      summary |-> Rep("s", MAX_EMOTIONAL_SUMMARY_LENGTH + 1)]}

\* the document createUserMemory builds (lines 57-70) has empty arrays; the
\* others are documents earlier calls have filled to one below the caps.
\* found = FALSE: findOne returns null.
InitMemory ==
    /\ currentOptimizationLevel = "balanced"
    /\ replies = <<>>
    /\ pc = "memory"
    /\ \E found \in BOOLEAN,
          d \in {0, BOT_CONFIG.maxPersonalDetails - 1},
          m \in {0, BOT_CONFIG.maxRecentMessages - 1},
          e \in {0, BOT_CONFIG.maxEmotionalMoments - 1} :
          /\ ~found => d = 0 /\ m = 0 /\ e = 0
          /\ args = [found |-> found,
                     memory |-> [personalDetails |-> StoredDetails(d),
                                 recentMessages |-> StoredMessages(m),
                                 emotionalMoments |-> StoredMoments(e),
                                 lastInteraction |-> m,
                                 totalInteractions |-> 1 + m],
                     now |-> BOT_CONFIG.maxPersonalDetails,
                     adds |-> 0]
    /\ ret = [op |-> "none", input |-> <<>>, before |-> args.memory,
              threw |-> FALSE]

\* a call whose lookup finds no document throws 'User memory not found'
MemoryCall(op, input, memory) ==
    /\ args.adds < MaxAdds
    /\ pc' = "memory"
    /\ ret' = [op |-> op, input |-> input, before |-> args.memory,
               threw |-> ~args.found]
    /\ args' = [args EXCEPT !.adds = @ + 1, !.now = @ + 1,
                            !.memory = IF args.found THEN memory ELSE @]
    /\ UNCHANGED <<currentOptimizationLevel, replies>>

AddRecentMessage ==
    \E message \in MessageInputs :
        MemoryCall("addRecentMessage", message,
            [args.memory EXCEPT
                !.recentMessages =
                    UnshiftCapped(@, NewMessage(message.userMessage,
                                                message.botResponse,
                                                message.tokens, args.now + 1),
                                  BOT_CONFIG.maxRecentMessages),
                !.lastInteraction = args.now + 1,
                !.totalInteractions = @ + 1])

AddEmotionalMoment ==
    \E moment \in MomentInputs :
        MemoryCall("addEmotionalMoment", moment,
            [args.memory EXCEPT
                !.emotionalMoments =
                    UnshiftCapped(@, NewMoment(moment, args.now + 1),
                                  BOT_CONFIG.maxEmotionalMoments)])

AddPersonalDetail ==
    \E detail \in DetailInputs :
        MemoryCall("addPersonalDetail", detail,
            [args.memory EXCEPT
                !.personalDetails = PersonalDetailsAdded(@, detail)])

NextMemory == AddRecentMessage \/ AddEmotionalMoment \/ AddPersonalDetail

SpecMemory == InitMemory /\ [][NextMemory]_vars

\* after is before with one entry put in front and, past the cap, the entries
\* at the far end dropped
PutInFront(after, before, cap) ==
    /\ Len(after) = (IF Len(before) < cap THEN Len(before) + 1 ELSE cap)
    /\ \A i \in 2..Len(after) : after[i] = before[i - 1]

\* stored is given, cut to at most limit characters
CutTo(stored, given, limit) ==
    /\ StartsWith(given, stored)
    /\ StrLen(stored) = (IF StrLen(given) < limit THEN StrLen(given) ELSE limit)

ValidateUserInput(input) ==
    StrLen(input) > 0 /\ StrLen(input) <= MAX_MESSAGE_LENGTH

\* sanitizeUserInput (src/unnamed/part_003:64-66): trim, then every character
\* of [\x00-\x1F\x7F] removed
SanitizeUserInput(input) ==
    Norm(KeepRange(Trim(input),
                   [i \in DOMAIN Trim(input) |->
                       Trim(input)[i].c \notin {"\n", "\t", "\r", "\f"}],
                   1, Len(Trim(input))))

\* BOT_CONFIG.channelId, the channel the bot is set up for
BotChannelId == "bot-channel"

DEFAULT_CHANNEL_CONFIG ==
    [mode |-> "whitelist", allowedChannels |-> {BotChannelId},
     blockedChannels |-> {}, allowDMs |-> FALSE, ownerBypass |-> TRUE,
     logAccess |-> TRUE]

\* performAccessCheck and evaluateChannelRules (channelManager.ts:96-193)
PerformAccessCheck(message, config) ==
    [isDM |-> message.channel.isDM,
     allowed |->
        IF config.mode = "disabled" THEN TRUE
        ELSE IF message.authorId = OwnerId /\ config.ownerBypass THEN TRUE
        ELSE IF message.channel.isDM THEN config.allowDMs
        ELSE CASE config.mode = "whitelist" ->
                    message.channel.id \in config.allowedChannels
               [] config.mode = "blacklist" ->
                    message.channel.id \notin config.blockedChannels
               [] OTHER -> FALSE]

\* one call of message.reply or channel.send
Attempt(kind, ok) == [kind |-> kind, ok |-> ok]

\* sendErrorResponse (messageCreate.ts:310-319): one reply, a failure logged
SendErrorResponse(error, ok) == <<Attempt(error, ok)>>

\* safeSendResponse (messageCreate.ts:279-304): the reply and, when it
\* fails, one channel.send
SafeSendResponse(sends) ==
    IF sends[1] THEN <<Attempt("response", TRUE)>>
    ELSE <<Attempt("response", FALSE), Attempt("fallback", sends[2])>>

\* sendAccessDeniedMessage (channelManager.ts:229-248): a reply in channels,
\* nothing in direct messages
SendAccessDeniedMessage(isDM, sends) ==
    IF ~isDM THEN <<Attempt("access_denied", sends[1])>> ELSE <<>>

\* The sends of a message that handleBotCommand handled (part_006:46-91 and
\* messageCreate.ts:125-134).  The owner-only notice and the notice of the
\* catch block are sent outside the try: when they fail the handler's own
\* catch sends its error response.  A reply of a command that fails is caught
\* in handleBotCommand, which then sends its notice.
CommandSends(first, sends) ==
    IF sends[1] THEN <<Attempt(first, TRUE)>>
    ELSE IF first \in {"owner_only", "error"}
    THEN <<Attempt(first, FALSE)>> \o SendErrorResponse("unexpected", sends[2])
    ELSE IF sends[2] THEN <<Attempt(first, FALSE), Attempt("error", TRUE)>>
    ELSE <<Attempt(first, FALSE), Attempt("error", FALSE)>>
             \o SendErrorResponse("unexpected", sends[3])

\* maxRetries of safeGenerateResponse
maxRetries == 2

\* a call the handler makes, and whether it succeeded
Call(name, ok) == [call |-> name, ok |-> ok]

\* the sends, as calls
Sends(attempts) == [k \in DOMAIN attempts |-> Call("send", attempts[k].ok)]

\* the loop of safeGenerateResponse from `attempt` on (lines 219-249): the
\* calls of generateClaudeResponse it makes, of which the first
\* claudeFailures throw; a call that returns ends the loop (line 227)
RECURSIVE GenerateFrom(_, _)
GenerateFrom(claudeFailures, attempt) ==
    IF attempt > maxRetries THEN <<>>
    ELSE IF attempt > claudeFailures
    THEN <<Call("generateClaudeResponse", TRUE)>>
    ELSE <<Call("generateClaudeResponse", FALSE)>>
             \o GenerateFrom(claudeFailures, attempt + 1)

\* variant of SafeGenerateResponse: every attempt made, whatever the one
\* before it gave
SafeGenerateResponse_TriesAll(claudeFailures) ==
    [success |-> claudeFailures < maxRetries,
     calls |-> [k \in 1..maxRetries |->
                   Call("generateClaudeResponse", k > claudeFailures)]]

\* safeGenerateResponse (messageCreate.ts:215-260)
SafeGenerateResponse(claudeFailures) ==
    [success |-> \E k \in DOMAIN GenerateFrom(claudeFailures, 1) :
                     GenerateFrom(claudeFailures, 1)[k].ok,
     calls |-> GenerateFrom(claudeFailures, 1)]

\* Steps 1 to 7 of handleMessageCreate, for a message that is no command
ProcessMessage(message, env) ==
    IF ~PerformAccessCheck(message, DEFAULT_CHANNEL_CONFIG).allowed
    THEN [path |-> "denied", stored |-> FALSE, calls |-> <<>>,
          attempts |-> SendAccessDeniedMessage(message.channel.isDM, env.sends)]
    ELSE IF ~ValidateUserInput(message.content)
    THEN [path |-> "invalid", stored |-> FALSE, calls |-> <<>>,
          attempts |-> SendErrorResponse("too_long", env.sends[1])]
    ELSE IF StrLen(SanitizeUserInput(message.content)) = 0
    THEN [path |-> "invalid", stored |-> FALSE, calls |-> <<>>,
          attempts |-> SendErrorResponse("no_content", env.sends[1])]
    ELSE IF ~env.memoryOk
    THEN [path |-> "no_memory", stored |-> FALSE, calls |-> <<>>,
          attempts |-> SendErrorResponse("no_user_data", env.sends[1])]
    ELSE IF ~SafeGenerateResponse(env.claudeFailures).success
    THEN [path |-> "no_response", stored |-> FALSE,
          calls |-> SafeGenerateResponse(env.claudeFailures).calls,
          attempts |-> SendErrorResponse("trouble_thinking", env.sends[1])]
    ELSE [path |-> "answered", stored |-> env.storeOk,
          calls |-> Append(SafeGenerateResponse(env.claudeFailures).calls,
                           Call("addRecentMessage", env.storeOk)),
          attempts |-> SafeSendResponse(env.sends)]

\* handleMessageCreate: the level afterwards, the path taken, the calls made
\* before the sends, and the sends
HandleMessageCreate(level, message, env) ==
    IF message.bot
    THEN [level |-> level, path |-> "bot", stored |-> FALSE, calls |-> <<>>,
          attempts |-> <<>>]
    ELSE IF HandleBotCommand(level, message).handled
    THEN [level |-> HandleBotCommand(level, message).level,
          path |-> "command", stored |-> FALSE, calls |-> <<>>,
          attempts |-> CommandSends(HandleBotCommand(level, message).reply.kind,
                                    env.sends)]
    ELSE [level |-> level,
          path |-> ProcessMessage(message, env).path,
          stored |-> ProcessMessage(message, env).stored,
          calls |-> ProcessMessage(message, env).calls,
          attempts |-> ProcessMessage(message, env).attempts]

Channels ==
    {[id |-> BotChannelId, isDM |-> FALSE], [id |-> "lobby", isDM |-> FALSE],
     [id |-> "dm", isDM |-> TRUE]}

HandlerContents ==
    {Lit(<<"!","b","o","t"," ","s","t","a","t","u","s">>), Lit(<<"!","b","o","t"," ","o","p","t","i","m","i","z","e"," ","e","c","o","n","o","m","y">>), Lit(<<"h","e","l","l","o"," ","b","o","t">>), Rep(" ", 3), <<>>,
     Rep("x", MAX_MESSAGE_LENGTH + 1),
     Lit(<<"!","b","o","t"," ","O","p","t","i","m","i","z","e"," ","B","a","l","a","n","c","e","d">>),
     Lit(<<"!","b","o","t"," ","o","p","t","i","m","i","z","e"," ","t","u","r","b","o">>)}

InitHandler ==
    /\ currentOptimizationLevel = "balanced"
    /\ replies = <<>>
    /\ pc = "idle"
    /\ args = <<>>
    /\ ret = [op |-> "none", before |-> "", path |-> "none", stored |-> FALSE,
              calls |-> <<>>, attempts |-> <<>>]

NoHandlerCall ==
    [op |-> "none", before |-> "", path |-> "none", stored |-> FALSE,
     calls |-> <<>>, attempts |-> <<>>]

NoEnv == [sends |-> <<>>, memoryOk |-> FALSE, claudeFailures |-> 0,
          storeOk |-> FALSE]

\* Discord emits messageCreate with a message
MessageArrives ==
    \E message \in [bot : BOOLEAN, authorId : AuthorIds,
                    content : HandlerContents, channel : Channels] :
        /\ pc = "idle"
        /\ pc' = "received"
        /\ args' = [message |-> message, env |-> NoEnv]
        /\ ret' = NoHandlerCall
        /\ replies' = <<>>
        /\ UNCHANGED currentOptimizationLevel

\* handleMessageCreate(message) runs to its end; replies holds what Discord
\* accepted for the message
MessageCreate ==
    /\ pc = "received"
    /\ pc' = "idle"
    /\ \E env \in [sends : [1..3 -> BOOLEAN], memoryOk : BOOLEAN,
                   claudeFailures : 0..maxRetries, storeOk : BOOLEAN] :
          \E done \in {HandleMessageCreate(currentOptimizationLevel,
                                           args.message, env)} :
              /\ currentOptimizationLevel' = done.level
              /\ replies' = SelectSeq(done.attempts, LAMBDA a : a.ok)
              /\ args' = [args EXCEPT !.env = env]
              /\ ret' = [op |-> "handleMessageCreate",
                         before |-> currentOptimizationLevel,
                         path |-> done.path,
                         stored |-> done.stored,
                         calls |-> done.calls \o Sends(done.attempts),
                         attempts |-> done.attempts]

NextHandler == MessageArrives \/ MessageCreate

SpecHandler == InitHandler /\ [][NextHandler]_vars

\* C20: when handleMessageCreate has completed for a message whose author is
\* not a bot, it has called message.reply or channel.send at least once.
C20_AlwaysFeedback ==
    (ret.op = "handleMessageCreate" /\ ~args.message.bot) =>
        Len(ret.attempts) >= 1

\* the calls of generateClaudeResponse among the handler's calls
GenerateCalls(calls) ==
    {k \in DOMAIN calls : calls[k].call = "generateClaudeResponse"}

\* C27: for each handled message generateClaudeResponse is called at most
\* twice, a second time only after the first call failed and never after one
\* that succeeded; when both calls fail, one error reply is sent and
\* addRecentMessage is not called; addRecentMessage is called only after a
\* call that succeeded and before every send.
C27_RetryOnceThenStore ==
    ret.op = "handleMessageCreate" =>
        /\ Cardinality(GenerateCalls(ret.calls)) <= 2
        /\ \A k \in GenerateCalls(ret.calls) :
               \A j \in GenerateCalls(ret.calls) : j < k => ~ret.calls[j].ok
        /\ (/\ Cardinality(GenerateCalls(ret.calls)) = 2
            /\ \A k \in GenerateCalls(ret.calls) : ~ret.calls[k].ok) =>
               /\ ret.attempts = <<Attempt("trouble_thinking", args.env.sends[1])>>
               /\ ~ret.stored
               /\ \A k \in DOMAIN ret.calls : ret.calls[k].call # "addRecentMessage"
        /\ \A k \in DOMAIN ret.calls :
               ret.calls[k].call = "addRecentMessage" =>
                   /\ \E j \in GenerateCalls(ret.calls) : j < k /\ ret.calls[j].ok
                   /\ \A j \in DOMAIN ret.calls :
                          ret.calls[j].call = "send" => k < j

\* the first call failed, the second one succeeded, the exchange was stored
\* and the reply sent after that
C27_Witness ==
    /\ ret.op = "handleMessageCreate"
    /\ ret.path = "answered"
    /\ ret.calls = <<Call("generateClaudeResponse", FALSE),
                     Call("generateClaudeResponse", TRUE),
                     Call("addRecentMessage", TRUE),
                     Call("send", TRUE)>>

\* the words of a message, in lower case
Words(content) == SplitWhitespace(ToLowerCase(Trim(content)))

GetOptimizedClaudeConfig(level) ==
    [maxTokens |-> OPTIMIZATION_PRESETS[level].maxResponseTokens,
     temperature |-> Quot(7, 10)]

\* `${personalityContext}\n\n${memoryContext}\n\nUser: ${userMessage}` (line 48)
FullContext(userMemory, userMessage, memoryContext) ==
    CatAll(<<BuildCorePersonality(userMemory), Lit(<<"\n","\n">>), memoryContext,
             Lit(<<"\n","\n","U","s","e","r",":"," ">>), userMessage>>)

\* what the API answers with
ResponseTexts == {Rep("y", 5), Rep("y", 8)}

NoRequest == [entry |-> "", fullContext |-> <<>>, maxTokens |-> 0,
              analytics |-> Undefined]

InitGenerate ==
    /\ currentOptimizationLevel = "balanced"
    /\ replies = <<>>
    /\ pc = "idle"
    /\ args \in [userMemory : {m \in UserMemories :
                                  /\ m.userName = Rep("N", MAX_USERNAME_LENGTH)
                                  /\ m.totalInteractions = 11
                                  /\ m.relationshipLevel = 60
                                  /\ ~m.personalDetails.null
                                  /\ ~m.recentMessages.null
                                  /\ ~m.emotionalMoments.null
                                  /\ Len(m.recentMessages.items) <= 1},
                 userMessage : UserMessages]
    /\ ret = NoRequest

\* lines 39-69, up to the await: the context is assembled and the response
\* limit read, both under the level of this moment (entry)
GenerateBegin ==
    /\ pc = "idle"
    /\ pc' = "awaiting"
    /\ ret' = [entry |-> currentOptimizationLevel,
               fullContext |->
                   FullContext(args.userMemory, args.userMessage,
                       OptimizeMemoryContext(args.userMemory, args.userMessage,
                           OPTIMIZATION_PRESETS[currentOptimizationLevel]).v),
               maxTokens |-> GetOptimizedClaudeConfig(currentOptimizationLevel).maxTokens,
               analytics |-> Undefined]
    /\ UNCHANGED <<currentOptimizationLevel, replies, args>>

\* another handler runs the owner's `!bot optimize <level>` (part_006:123)
OptimizeMeanwhile ==
    /\ \E level \in PresetNames \ {currentOptimizationLevel} :
           SetOptimizationLevel(level)
    /\ UNCHANGED <<replies, pc, args, ret>>

\* lines 76-103, from the resolution of the await on: the analytics of the
\* request; contextReduction and qualityScore, which compare with the verbose
\* context, are not kept
GenerateEnd ==
    /\ pc = "awaiting"
    /\ pc' = "done"
    /\ \E responseText \in ResponseTexts :
         /\ replies' = <<responseText>>
         /\ ret' = [ret EXCEPT !.analytics =
                [f \in {"inputTokens", "outputTokens", "totalTokens",
                        "optimizationLevel"} |->
                    CalculateTokenAnalytics(ret.fullContext, responseText, Absent,
                                            currentOptimizationLevel)[f]]]
    /\ UNCHANGED <<currentOptimizationLevel, args>>

NextGenerate == GenerateBegin \/ OptimizeMeanwhile \/ GenerateEnd

SpecGenerate == InitGenerate /\ [][NextGenerate]_vars

\* C29: the optimizationLevel in the analytics of a request names the preset
\* its context was assembled under and its response limit was taken from,
\* also when setOptimizationLevel ran while the request awaited the API.
C29_AnalyticsNameUsedPreset ==
    pc = "done" =>
        /\ ret.analytics.optimizationLevel = ret.entry
        /\ ret.maxTokens =
               OPTIMIZATION_PRESETS[ret.analytics.optimizationLevel].maxResponseTokens
        /\ ret.fullContext =
               FullContext(args.userMemory, args.userMessage,
                   OptimizeMemoryContext(args.userMemory, args.userMessage,
                       OPTIMIZATION_PRESETS[ret.analytics.optimizationLevel]).v)

(***************************************************************************)
(* addRecentMessage calls of one user that overlap in time                 *)
(*                                                                         *)
(* A call awaits findOne (part_007:112) and save (part_007:131); between   *)
(* the two it works on its own copy of the document.  UserMemorySchema     *)
(* (database/connection.ts:37-50) sets no versionKey or                    *)
(* optimisticConcurrency option, so Mongoose keeps its default version key *)
(* __v: a save that replaces an array (unshift and the assignment of the   *)
(* slice both do) carries the __v it read in its filter and increments it, *)
(* and rejects with a VersionError when no document matches.               *)
(***************************************************************************)
MaxCalls == 3

\* variant of SaveDocument: the modified paths written whatever was stored
SaveDocument_Overwrites(stored, local) ==
    [ok |-> TRUE, stored |-> [local EXCEPT !.version = stored.version + 1]]

\* memory.save() of a copy whose recentMessages was replaced
SaveDocument(stored, local) ==
    IF stored.version = local.version
    THEN [ok |-> TRUE, stored |-> [local EXCEPT !.version = @ + 1]]
    ELSE [ok |-> FALSE, stored |-> stored]

\* the exchange call c stores
ExchangeOf(c) ==
    NewMessage(Rep("m", c), Rep("b", 2), 50, BOT_CONFIG.maxRecentMessages + c)

\* the documents of a user with m stored exchanges and `evicted` more that
\* have left the rolling window
InitInterleave ==
    /\ currentOptimizationLevel = "balanced"
    /\ replies = <<>>
    /\ pc = [c \in 1..MaxCalls |-> "idle"]
    /\ args = [c \in 1..MaxCalls |-> Undefined]
    /\ \E m \in {0, BOT_CONFIG.maxRecentMessages - 1, BOT_CONFIG.maxRecentMessages},
          evicted \in {0, 5} :
          /\ evicted > 0 => m = BOT_CONFIG.maxRecentMessages
          /\ ret = [stored |-> [recentMessages |-> StoredMessages(m),
                                lastInteraction |-> m,
                                totalInteractions |-> 1 + m + evicted,
                                version |-> m + evicted],
                    initial |-> 1 + m + evicted,
                    completed |-> {}]

\* line 112: findOne resolves with the document as stored
FindMemory(c) ==
    /\ pc[c] = "idle"
    /\ pc' = [pc EXCEPT ![c] = "found"]
    /\ args' = [args EXCEPT ![c] = ret.stored]
    /\ UNCHANGED <<currentOptimizationLevel, replies, ret>>

\* lines 117-129, on the call's copy
ModifyMemory(c) ==
    /\ pc[c] = "found"
    /\ pc' = [pc EXCEPT ![c] = "modified"]
    /\ args' = [args EXCEPT ![c] =
                   [@ EXCEPT !.recentMessages =
                                 UnshiftCapped(@, ExchangeOf(c),
                                               BOT_CONFIG.maxRecentMessages),
                             !.lastInteraction = BOT_CONFIG.maxRecentMessages + c,
                             !.totalInteractions = @ + 1]]
    /\ UNCHANGED <<currentOptimizationLevel, replies, ret>>

\* line 131: the save resolves, or rejects and the call throws
SaveMemory(c) ==
    /\ pc[c] = "modified"
    /\ \E saved \in {SaveDocument(ret.stored, args[c])} :
         /\ pc' = [pc EXCEPT ![c] = IF saved.ok THEN "saved" ELSE "rejected"]
         /\ ret' = [ret EXCEPT !.stored = saved.stored,
                               !.completed = IF saved.ok THEN @ \cup {c} ELSE @]
    /\ UNCHANGED <<currentOptimizationLevel, replies, args>>

NextInterleave ==
    \E c \in 1..MaxCalls : FindMemory(c) \/ ModifyMemory(c) \/ SaveMemory(c)

SpecInterleave == InitInterleave /\ [][NextInterleave]_vars

====
